---- MODULE Spec2Model ----
(***************************************************************************)
(* A model of loupe's computational graph (loupe/core.py, numeric.py,      *)
(* tensordot.py, util.py): array leaves with data, gradient buffer and     *)
(* requires_grad flag, Function nodes with inputs, cache and stored        *)
(* output, forward evaluation on every read of .data, and the recursive    *)
(* backward pass; and of the optimizer's Blueprint (loupe/optimize.py).    *)
(*                                                                         *)
(* Numbers are complex numbers with integer parts <<re, im>>; a buffer is  *)
(* a record [dt, shape, v] with a NumPy dtype name, a shape and the        *)
(* elements in row-major order.                                            *)
(***************************************************************************)
EXTENDS Integers, Sequences, FiniteSets, TLC

VARIABLES heap, last, nbwd, optim

vars == <<heap, last, nbwd, optim>>

(***************************************************************************)
(* Bounds of the model.                                                    *)
(***************************************************************************)
\* length of the one-dimensional buffers
VecLen == 2
\* number of objects (leaves and Function nodes) that may be allocated
MaxNodes == 3
\* number of top-level backward calls in one behaviour of the graph specifications
MaxBwd == 1
\* number of backward calls in one behaviour of the single-leaf specification
MaxLeafBwd == 2
\* number of rows of the two-dimensional buffers
NRows == 3
\* resolution of the gradients given to slice nodes: in SpecSlice an element
\* <<re, im>> stands for the number (re + im*j) / Frac
Frac == 2

\* the terms of a subscript string, and the operands of an einsum call
MaxTerms == 2
\* the whole number that stands for e in the values of exp nodes
ExpBase == 3

(***************************************************************************)
(* NumPy buffers.                                                          *)
(***************************************************************************)
DTypes == {"int64", "float64", "complex128"}

\* the kind order of NumPy's casting rules: integer < floating < complex
Kind(dt) == CASE dt = "int64" -> 1 [] dt = "float64" -> 2 [] dt = "complex128" -> 3

Promote(d1, d2) == IF Kind(d1) >= Kind(d2) THEN d1 ELSE d2

\* casting rule 'same_kind' of an in-place ufunc: the loop's result type must
\* not be of a higher kind than the output buffer
CanCastSameKind(from, to) == Kind(from) <= Kind(to)

Mk(dt, shape, v) == [dt |-> dt, shape |-> shape, v |-> v]

RECURSIVE Prod(_)
\* the number of elements of a shape
Prod(shape) == IF shape = <<>> THEN 1 ELSE shape[1] * Prod(Tail(shape))

RECURSIVE Offset(_, _, _)
\* the row-major offset of the index idx (one number from 1 per axis), over
\* the first k axes
Offset(shape, idx, k) ==
    IF k = 0 THEN 0 ELSE (Offset(shape, idx, k - 1) * shape[k]) + (idx[k] - 1)

Flat(shape, idx) == Offset(shape, idx, Len(shape)) + 1

\* the index of element p
Unflat(shape, p) ==
    [k \in 1..Len(shape) |->
        (((p - 1) \div Prod(SubSeq(shape, k + 1, Len(shape)))) % shape[k]) + 1]

\* a shape of rank 0, 1 or 2 seen as rows and columns (dimensions are aligned
\* from the right, as broadcasting does)
Pad(shape) ==
    IF shape = <<>> THEN <<1, 1>> ELSE IF Len(shape) = 1 THEN <<1, shape[1]>> ELSE shape

Size(shape) == IF Len(shape) > 2 THEN Prod(shape) ELSE Pad(shape)[1] * Pad(shape)[2]

Zeros(dt, shape) == Mk(dt, shape, [i \in 1..Size(shape) |-> <<0, 0>>])

\* the placeholder of a field that holds no buffer
NoBuf == Mk("float64", <<>>, <<>>)

CAdd(x, y) == <<x[1] + y[1], x[2] + y[2]>>
CSub(x, y) == <<x[1] - y[1], x[2] - y[2]>>
CMul(x, y) == <<x[1] * y[1] - x[2] * y[2], x[1] * y[2] + x[2] * y[1]>>
CConj(x) == <<x[1], -x[2]>>

RECURSIVE CPow(_, _)
CPow(x, k) == IF k <= 0 THEN <<1, 0>> ELSE CMul(x, CPow(x, k - 1))

\* NumPy broadcasting of two shapes: aligned dimensions are equal, or one is 1
DimsAgree(m, n) == m = n \/ m = 1 \/ n = 1

Max(m, n) == IF m >= n THEN m ELSE n

\* the size of axis k of a shape aligned from the right in rank n
DimIn(shape, n, k) == IF k > n - Len(shape) THEN shape[k - (n - Len(shape))] ELSE 1

BCompatible(s1, s2) ==
    IF Len(s1) > 2 \/ Len(s2) > 2
    THEN \A k \in 1..Max(Len(s1), Len(s2)) :
             DimsAgree(DimIn(s1, Max(Len(s1), Len(s2)), k), DimIn(s2, Max(Len(s1), Len(s2)), k))
    ELSE /\ DimsAgree(Pad(s1)[1], Pad(s2)[1])
         /\ DimsAgree(Pad(s1)[2], Pad(s2)[2])

BShape(s1, s2) ==
    LET r == Max(Pad(s1)[1], Pad(s2)[1])
        c == Max(Pad(s1)[2], Pad(s2)[2])
    IN IF Len(s1) > 2 \/ Len(s2) > 2
       THEN [k \in 1..Max(Len(s1), Len(s2)) |->
                Max(DimIn(s1, Max(Len(s1), Len(s2)), k), DimIn(s2, Max(Len(s1), Len(s2)), k))]
       ELSE IF Len(s1) = 2 \/ Len(s2) = 2 THEN <<r, c>>
       ELSE IF Len(s1) = 1 \/ Len(s2) = 1 THEN <<c>>
       ELSE <<>>

\* the position in a buffer of shape sa that is read at position i of the
\* broadcast shape s: a dimension of size 1 is repeated
Pos(sa, s, i) ==
    LET row == ((i - 1) \div Pad(s)[2]) + 1
        col == ((i - 1) % Pad(s)[2]) + 1
    IN IF Len(s) > 2
       THEN Flat(sa, [k \in 1..Len(sa) |->
                         IF sa[k] = 1 THEN 1 ELSE Unflat(s, i)[k + (Len(s) - Len(sa))]])
       ELSE (((IF Pad(sa)[1] = 1 THEN 1 ELSE row) - 1) * Pad(sa)[2])
            + (IF Pad(sa)[2] = 1 THEN 1 ELSE col)

\* element i of buffer a seen through a broadcast to shape s
At(a, s, i) == a.v[Pos(a.shape, s, i)]

np_add(a, b) ==
    LET s == BShape(a.shape, b.shape)
    IN Mk(Promote(a.dt, b.dt), s, [i \in 1..Size(s) |-> CAdd(At(a, s, i), At(b, s, i))])

np_subtract(a, b) ==
    LET s == BShape(a.shape, b.shape)
    IN Mk(Promote(a.dt, b.dt), s, [i \in 1..Size(s) |-> CSub(At(a, s, i), At(b, s, i))])

np_multiply(a, b) ==
    LET s == BShape(a.shape, b.shape)
    IN Mk(Promote(a.dt, b.dt), s, [i \in 1..Size(s) |-> CMul(At(a, s, i), At(b, s, i))])

np_conj(a) == Mk(a.dt, a.shape, [i \in 1..Size(a.shape) |-> CConj(a.v[i])])

np_negative(a) == Mk(a.dt, a.shape, [i \in 1..Size(a.shape) |-> <<-a.v[i][1], -a.v[i][2]>>])

\* np.power(a, k) for a Python int k
np_power(a, k) == Mk(a.dt, a.shape, [i \in 1..Size(a.shape) |-> CPow(a.v[i], k)])

\* np.power(a, e) for a buffer e of non-negative whole numbers, elementwise
np_power_array(a, e) ==
    LET s == BShape(a.shape, e.shape)
    IN Mk(Promote(a.dt, e.dt), s, [i \in 1..Size(s) |-> CPow(At(a, s, i), At(e, s, i)[1])])

\* k * a for a Python int k
np_scale(k, a) == Mk(a.dt, a.shape, [i \in 1..Size(a.shape) |-> <<k * a.v[i][1], k * a.v[i][2]>>])

\* a.real: the buffer itself when it is real, the real parts as float64 otherwise
np_real(a) ==
    IF a.dt = "complex128"
    THEN Mk("float64", a.shape, [i \in 1..Size(a.shape) |-> <<a.v[i][1], 0>>])
    ELSE a

RECURSIVE SumTo(_, _)
SumTo(v, k) == IF k = 0 THEN <<0, 0>> ELSE CAdd(SumTo(v, k - 1), v[k])

\* np.sum(a) over all elements: a rank-0 result
np_sum(a) == Mk(a.dt, <<>>, <<SumTo(a.v, Size(a.shape))>>)

\* np.asarray(value, dtype=dt) of a real value
np_astype(a, dt) == Mk(dt, a.shape, a.v)

\* np.exp(a) of a buffer of whole real numbers >= 0: a floating buffer, with
\* the whole number ExpBase standing for e (exp(0) = 1, exp(x + y) = exp(x) * exp(y))
np_exp(a) ==
    Mk(IF a.dt = "int64" THEN "float64" ELSE a.dt, a.shape,
       [i \in 1..Size(a.shape) |-> CPow(<<ExpBase, 0>>, a.v[i][1])])

IsZero(a) == \A i \in 1..Size(a.shape) : a.v[i] = <<0, 0>>

\* the first elements of the leaf buffers, assigned values and gradient seeds
Values == {1, 2}

\* the buffer of a dtype and shape whose elements are the real numbers c, c+1, ...
\* (row-major)
Ramp(dt, shape, c) == Mk(dt, shape, [i \in 1..Size(shape) |-> <<c + i - 1, 0>>])

Shapes == {<<>>, <<1>>, <<VecLen>>}

\* gradient seeds: real ramps of every dtype, and complex ones with imaginary part c
Seed(dt, shape, c) ==
    IF dt = "complex128"
    THEN Mk(dt, shape, [i \in 1..Size(shape) |-> <<c + i - 1, c>>])
    ELSE Ramp(dt, shape, c)

Seeds == {Seed(dt, s, c) : dt \in DTypes, s \in Shapes, c \in Values}

(***************************************************************************)
(* Contractions: np.einsum, np.tensordot and np.transpose on buffers of    *)
(* any rank.  A term is the sequence of the labels of an operand's axes.   *)
(***************************************************************************)
LabelsOf(terms) == UNION {{terms[t][k] : k \in 1..Len(terms[t])} : t \in 1..Len(terms)}

\* the size of the axis a label stands for (its first occurrence)
LabelDim(terms, ops, c) ==
    LET t == CHOOSE t \in 1..Len(terms) :
                 /\ \E k \in 1..Len(terms[t]) : terms[t][k] = c
                 /\ \A u \in 1..(t - 1) : \A k \in 1..Len(terms[u]) : terms[u][k] # c
        k == CHOOSE k \in 1..Len(terms[t]) :
                 terms[t][k] = c /\ \A m \in 1..(k - 1) : terms[t][m] # c
    IN ops[t].shape[k]

\* what np.einsum rejects: a term that has not one label per axis of its
\* operand, an output label that is repeated or in no input term, a label on
\* axes of different sizes (the operands of the model have no axis that
\* np.einsum would broadcast)
np_einsum_error(terms, out, ops) ==
    IF \/ Len(terms) # Len(ops)
       \/ \E t \in 1..Len(terms) : t <= Len(ops) /\ Len(terms[t]) # Len(ops[t].shape)
       \/ \E k \in 1..Len(out) : out[k] \notin LabelsOf(terms)
       \/ \E k, m \in 1..Len(out) : k # m /\ out[k] = out[m]
    THEN "ValueError"
    ELSE IF \E t \in 1..Len(terms) : \E k \in 1..Len(terms[t]) :
                ops[t].shape[k] # LabelDim(terms, ops, terms[t][k])
    THEN "ValueError"
    ELSE ""

RECURSIVE ElemProduct(_, _, _, _)
\* the product of the operands' elements at the assignment f of indices to labels
ElemProduct(terms, ops, f, t) ==
    IF t = 0 THEN <<1, 0>>
    ELSE CMul(ElemProduct(terms, ops, f, t - 1),
              ops[t].v[Flat(ops[t].shape, [k \in 1..Len(terms[t]) |-> f[terms[t][k]]])])

RECURSIVE SumOver(_, _)
SumOver(fn, S) ==
    IF S = {} THEN <<0, 0>>
    ELSE LET x == CHOOSE x \in S : TRUE IN CAdd(fn[x], SumOver(fn, S \ {x}))

RECURSIVE PromoteAll(_, _)
PromoteAll(ops, t) == IF t = 1 THEN ops[1].dt ELSE Promote(PromoteAll(ops, t - 1), ops[t].dt)

\* np.einsum('terms->out', *ops): every output element is the sum, over the
\* labels that are not in the output, of the products of the operands' elements
np_einsum(terms, out, ops) ==
    LET labels == LabelsOf(terms)
        inner == labels \ {out[k] : k \in 1..Len(out)}
        dims == {LabelDim(terms, ops, c) : c \in inner}
        top == IF dims = {} THEN 1 ELSE CHOOSE d \in dims : \A e \in dims : e <= d
        asgs == {f \in [inner -> 1..top] : \A c \in inner : f[c] <= LabelDim(terms, ops, c)}
        shape == [k \in 1..Len(out) |-> LabelDim(terms, ops, out[k])]
        at(idx, f) == [c \in labels |->
                          IF c \in inner THEN f[c] ELSE idx[CHOOSE k \in 1..Len(out) : out[k] = c]]
        vals(idx) == [f \in asgs |-> ElemProduct(terms, ops, at(idx, f), Len(terms))]
    IN Mk(PromoteAll(ops, Len(ops)), shape,
          [p \in 1..Prod(shape) |-> SumOver(vals(Unflat(shape, p)), asgs)])

\* list(range(lo, hi))
Range0(lo, hi) == [k \in 1..(hi - lo) |-> lo + k - 1]

\* x in seq
In(seq, x) == \E k \in 1..Len(seq) : seq[k] = x

\* the axis a Python index stands for, from 0
Norm(axis, n) == IF axis < 0 THEN axis + n ELSE axis

\* np.tensordot(a, b, axes=(a_cols, b_rows)): the listed axes (from 0, negative
\* ones counted from the end) are contracted pairwise, the output has the other
\* axes of a, then the other axes of b
np_tensordot(a, b, a_cols, b_rows) ==
    LET na == Len(a.shape)
        nb == Len(b.shape)
        la == [k \in 1..na |->
                 IF \E m \in 1..Len(a_cols) : Norm(a_cols[m], na) = k - 1
                 THEN <<"c", CHOOSE m \in 1..Len(a_cols) : Norm(a_cols[m], na) = k - 1>>
                 ELSE <<"a", k>>]
        lb == [k \in 1..nb |->
                 IF \E m \in 1..Len(b_rows) : Norm(b_rows[m], nb) = k - 1
                 THEN <<"c", CHOOSE m \in 1..Len(b_rows) : Norm(b_rows[m], nb) = k - 1>>
                 ELSE <<"b", k>>]
        free(l) == SelectSeq(l, LAMBDA x : x[1] # "c")
    IN np_einsum(<<la, lb>>, free(la) \o free(lb), <<a, b>>)

\* np.transpose(y, trans): axis k of the result is axis trans[k] of y (from 0,
\* a negative one from the end)
np_transpose(y, trans) ==
    LET n == Len(trans)
        shape == [k \in 1..n |-> y.shape[Norm(trans[k], n) + 1]]
        src(idx) == [m \in 1..n |-> idx[CHOOSE k \in 1..n : Norm(trans[k], n) + 1 = m]]
    IN Mk(y.dt, shape, [p \in 1..Prod(shape) |-> y.v[Flat(y.shape, src(Unflat(shape, p)))]])

(***************************************************************************)
(* loupe/tensordot.py: _tensordot with the axis partitions.  Axis numbers  *)
(* count from 0 as in the source; a partition is a pair <<row axes, column *)
(* axes>>, and None is NoAxes.                                             *)
(***************************************************************************)
NoAxes == <<>>

\* np.asarray(axes) of an int N, and of a pair of axis lists
IntAxes(n) == [ndim |-> 0, n |-> n, a |-> <<>>, b |-> <<>>]
PairAxes(a, b) == [ndim |-> 2, n |-> 0, a |-> a, b |-> b]

NoPart == [a_axes |-> NoAxes, b_axes |-> NoAxes, c_axes |-> NoAxes]

\* [i for i in range(n) if i not in axes]
NotIn(n, axes) == SelectSeq(Range0(0, n), LAMBDA i : ~In(axes, i))

\* a.shape[axis] raises IndexError outside -ndim..ndim-1
BadIndex(shape, axis) == axis >= Len(shape) \/ axis < -Len(shape)

ShapeAt(shape, axis) == shape[Norm(axis, Len(shape)) + 1]

\* the loop over zip(a_axes[1], b_axes[0]): the exception of the first pair
\* that has one
PairError(a, b, a_cols, b_rows) ==
    LET bad(k) == \/ BadIndex(a.shape, a_cols[k]) \/ BadIndex(b.shape, b_rows[k])
                  \/ ShapeAt(a.shape, a_cols[k]) # ShapeAt(b.shape, b_rows[k])
        fails == {k \in 1..Len(a_cols) : bad(k)}
        k == CHOOSE k \in fails : \A m \in fails : k <= m
    IN IF fails = {} THEN ""
       ELSE IF BadIndex(a.shape, a_cols[k]) \/ BadIndex(b.shape, b_rows[k]) THEN "IndexError"
       ELSE "ValueError"

\* table = np.cumsum([1 if i in axes else 0 for i in range(n)]) - 1; table[axis]
\* (a negative axis counts from the end of the table)
Table(axes, n, axis) == Cardinality({i \in 0..Norm(axis, n) : In(axes, i)}) - 1

\* an index outside -n..n-1 into a list or an array of n entries
OutOfRange(n, list) == \E i \in 1..Len(list) : list[i] >= n \/ list[i] < -n

\* trans as the two loops over c_axes[0] and c_axes[1] leave it: position p
\* (from 0) holds <<v>> for the value v of the last assignment to it, <<>> for
\* None if there was none; na and nb are the ranks of a and b
Trans(y_ndim, na, nb, a_axes, b_axes, c_axes) ==
    LET rows == {i \in 1..Len(c_axes[1]) : TRUE}
        cols == {i \in 1..Len(c_axes[2]) : TRUE}
        lastrow(p) == {i \in rows : /\ Norm(c_axes[1][i], y_ndim) = p
                                    /\ \A j \in rows : Norm(c_axes[1][j], y_ndim) = p => j <= i}
        lastcol(p) == {i \in cols : /\ Norm(c_axes[2][i], y_ndim) = p
                                    /\ \A j \in cols : Norm(c_axes[2][j], y_ndim) = p => j <= i}
    IN [q \in 1..y_ndim |->
          IF lastcol(q - 1) # {}
          THEN <<Table(b_axes[2], nb, b_axes[2][CHOOSE i \in lastcol(q - 1) : TRUE])
                   + Len(a_axes[1])>>
          ELSE IF lastrow(q - 1) # {}
          THEN <<Table(a_axes[1], na, a_axes[1][CHOOSE i \in lastrow(q - 1) : TRUE])>>
          ELSE <<>>]

\* the partitions _tensordot works with: the ones handed in, or, when one of
\* them is None, <<free axes of a, contracted axes of a>> and <<contracted axes
\* of b, free axes of b>> from axes
tensordot_partition(a, b, axes, a_axes0, b_axes0) ==
    LET na == Len(a.shape)
        nb == Len(b.shape)
        a_cols == IF axes.ndim = 0 THEN Range0(na - axes.n, na) ELSE axes.a
        b_rows == IF axes.ndim = 0 THEN Range0(0, axes.n) ELSE axes.b
    IN IF a_axes0 = NoAxes \/ b_axes0 = NoAxes
       THEN [a_axes |-> <<NotIn(na, a_cols), a_cols>>, b_axes |-> <<b_rows, NotIn(nb, b_rows)>>]
       ELSE [a_axes |-> a_axes0, b_axes |-> b_axes0]

\* the checks before np.tensordot: 'axes count mismatch', 'dimension of input
\* arrays must be greater equal to dot-axes count', then the pairs of axes
tensordot_error(a, b, a_axes, b_axes) ==
    IF Len(a_axes[2]) # Len(b_axes[1]) THEN "ValueError"
    ELSE IF Len(a.shape) < Len(a_axes[2]) \/ Len(b.shape) < Len(b_axes[1]) THEN "ValueError"
    ELSE PairError(a, b, a_axes[2], b_axes[1])

\* for i, c_axis in enumerate(trans): if i != c_axis: y = np.transpose(y, trans)
\* np.transpose raises TypeError for None, an axis error for an axis outside
\* -ndim..ndim-1 and ValueError for a repeated axis
tensordot_transposed(y, trans) ==
    LET n == Len(trans)
        wrong(q) == \/ OutOfRange(n, trans[q])
                    \/ \E r \in 1..q - 1 : Norm(trans[r][1], n) = Norm(trans[q][1], n)
    IN IF \A q \in 1..n : trans[q] = <<q - 1>> THEN [y |-> y, err |-> ""]
       ELSE IF \E q \in 1..n : trans[q] = <<>> THEN [y |-> NoBuf, err |-> "TypeError"]
       ELSE IF \E q \in 1..n : wrong(q)
       THEN [y |-> NoBuf,
             err |-> IF OutOfRange(n, trans[CHOOSE q \in 1..n : wrong(q) /\ \A r \in 1..q - 1 : ~wrong(r)])
                     THEN "AxisError" ELSE "ValueError"]
       ELSE [y |-> np_transpose(y, [q \in 1..n |-> trans[q][1]]), err |-> ""]

\* the block 'if c_axes is not None' on the contraction y of operands of
\* rank na and nb: the two loops raise IndexError for a c_axis that is no
\* position of trans and for an axis that is no position of its table
tensordot_output(y, na, nb, a_axes, b_axes, c_axes0) ==
    IF c_axes0 = NoAxes THEN [y |-> y, err |-> ""]
    ELSE IF Len(a_axes[1]) # Len(c_axes0[1]) \/ Len(b_axes[2]) # Len(c_axes0[2])
    THEN [y |-> NoBuf, err |-> "ValueError"]
    ELSE IF \/ OutOfRange(Len(y.shape), c_axes0[1]) \/ OutOfRange(Len(y.shape), c_axes0[2])
            \/ OutOfRange(na, a_axes[1]) \/ OutOfRange(nb, b_axes[2])
    THEN [y |-> NoBuf, err |-> "IndexError"]
    ELSE tensordot_transposed(y, Trans(Len(y.shape), na, nb, a_axes, b_axes, c_axes0))

\* what _tensordot returns or raises, from the exception e of the checks and
\* the outcome out of the block on y
tensordot_result(a_axes, b_axes, c_axes0, e, out) ==
    IF e # "" THEN [y |-> NoBuf, a_axes |-> a_axes, b_axes |-> b_axes, c_axes |-> c_axes0, err |-> e]
    ELSE [y |-> out.y, a_axes |-> a_axes, b_axes |-> b_axes,
          c_axes |-> IF c_axes0 # NoAxes THEN c_axes0
                     ELSE <<Range0(0, Len(a_axes[1])),
                            Range0(Len(a_axes[1]), Len(a_axes[1]) + Len(b_axes[2]))>>,
          err |-> out.err]

tensordot_with(a, b, a_axes, b_axes, c_axes0) ==
    tensordot_result(a_axes, b_axes, c_axes0, tensordot_error(a, b, a_axes, b_axes),
                     tensordot_output(np_tensordot(a, b, a_axes[2], b_axes[1]),
                                      Len(a.shape), Len(b.shape), a_axes, b_axes, c_axes0))

tensordot_from(a, b, p, c_axes0) == tensordot_with(a, b, p.a_axes, p.b_axes, c_axes0)

\* _tensordot(a, b, axes, a_axes, b_axes, c_axes): the contraction y, the
\* partitions used, the exception raised
_tensordot(a, b, axes, a_axes0, b_axes0, c_axes0) ==
    tensordot_from(a, b, tensordot_partition(a, b, axes, a_axes0, b_axes0), c_axes0)

(***************************************************************************)
(* loupe/fourier.py: dft2 with the defaults shift = offset = (0, 0) and    *)
(* axes = None.  The elements of alpha are whole multiples of 1/4 and the  *)
(* buffer of alpha holds their numerators, so that every kernel entry      *)
(* exp(-2j*pi*alpha*r*u) is a power of -i; with |alpha_row * alpha_col| a   *)
(* square, norm_coeff is a multiple of 1/4 as well.                        *)
(***************************************************************************)
\* _dft2_coords: np.arange(m) - np.floor(m/2.0)
_dft2_coords(m) == [k \in 1..m |-> (k - 1) - (m \div 2)]

\* exp(-2j*pi*e/4) for a whole number e
Kernel(e) ==
    CASE e % 4 = 0 -> <<1, 0>>
      [] e % 4 = 1 -> <<0, -1>>
      [] e % 4 = 2 -> <<-1, 0>>
      [] e % 4 = 3 -> <<0, 1>>

\* _dft2_matrices: E1 = exp(-2j*pi*alphar*outer(R, U)).T of shape (M, m) and
\* E2 = exp(-2j*pi*alphac*outer(S, V)) of shape (n, N)
dft2_E1(m, M, alphar) ==
    Mk("complex128", <<M, m>>,
       [p \in 1..(M * m) |->
           Kernel(alphar * _dft2_coords(m)[((p - 1) % m) + 1] * _dft2_coords(M)[((p - 1) \div m) + 1])])

dft2_E2(n, N, alphac) ==
    Mk("complex128", <<n, N>>,
       [p \in 1..(n * N) |->
           Kernel(alphac * _dft2_coords(n)[((p - 1) \div N) + 1] * _dft2_coords(N)[((p - 1) % N) + 1])])

\* np.broadcast_to(alpha, (2,)) of a buffer of shape (), (1,) or (2,)
dft2_alpha(alpha) == [k \in 1..2 |-> alpha.v[IF Size(alpha.shape) = 1 THEN 1 ELSE k][1]]

\* the planes input[k] of an input of rank 3, the input itself for rank 2
\* (input[np.newaxis, :])
Planes(x) ==
    IF Len(x.shape) = 2 THEN <<x>>
    ELSE [k \in 1..x.shape[1] |->
             Mk(x.dt, <<x.shape[2], x.shape[3]>>,
                SubSeq(x.v, ((k - 1) * x.shape[2] * x.shape[3]) + 1, k * x.shape[2] * x.shape[3]))]

RECURSIVE Joined(_, _)
\* the elements of list[1..k], one array after the other
Joined(list, k) == IF k = 0 THEN <<>> ELSE Joined(list, k - 1) \o list[k].v

\* np.squeeze(list) of a list of arrays of one shape and dtype
np_squeeze(list) ==
    Mk(list[1].dt, SelectSeq(<<Len(list)>> \o list[1].shape, LAMBDA d : d # 1),
       Joined(list, Len(list)))

\* np.dot(Wr.dot(x), Wc) for two-dimensional Wr, x and Wc
dot3(Wr, x, Wc) == np_tensordot(np_tensordot(Wr, x, <<1>>, <<0>>), Wc, <<1>>, <<0>>)

\* the whole number s with s * s = n
Root(n) == CHOOSE s \in 0..n : s * s = n

Abs(k) == IF k < 0 THEN -k ELSE k

\* norm_coeff = np.prod(np.sqrt(np.abs(alpha))) if unitary else 1, as the
\* pair of a numerator and a denominator
dft2_norm_coeff(alpha, unitary) ==
    IF unitary THEN <<Root(Abs(alpha[1] * alpha[2])), 4>> ELSE <<1, 1>>

\* buf * c for a real c = <<numerator, denominator>>; the result is floating
Times(buf, c) ==
    Mk(Promote(buf.dt, "float64"), buf.shape,
       [i \in 1..Size(buf.shape) |-> <<(buf.v[i][1] * c[1]) \div c[2], (buf.v[i][2] * c[1]) \div c[2]>>])

\* the list result of dft2.forward: one triple product per plane
dft2_products(x, out_shape, alpha) ==
    [k \in 1..Len(Planes(x)) |->
        dot3(dft2_E1(Planes(x)[k].shape[1], out_shape[1], alpha[1]), Planes(x)[k],
             dft2_E2(Planes(x)[k].shape[2], out_shape[2], alpha[2]))]

\* dft2.forward: result = np.squeeze(result); if self.unitary: result *= norm_coeff
dft2_forward(x, alpha, out_shape, unitary) ==
    Times(np_squeeze(dft2_products(x, out_shape, dft2_alpha(alpha))),
          dft2_norm_coeff(dft2_alpha(alpha), unitary))

\* np.broadcast_to(alpha, (2,)) raises ValueError for any other shape
dft2_error(alpha) == IF alpha.shape \in {<<>>, <<1>>, <<2>>} THEN "" ELSE "ValueError"

(***************************************************************************)
(* Subscript strings (loupe/einsum.py).  A string is the sequence of its   *)
(* characters; a term is the string between two commas.                    *)
(***************************************************************************)
\* einsum_symbols: the letters a label may be, here in the order of their
\* character codes (upper case first), which is the order sorted() gives
einsum_symbols == <<"A", "a", "i", "j", "z">>

IsSymbol(c) == \E k \in 1..Len(einsum_symbols) : einsum_symbols[k] = c

\* s.count(c), s.replace(c, "") and c in s for a character c
Count(s, c) == Cardinality({k \in 1..Len(s) : s[k] = c})
Without(s, c) == SelectSeq(s, LAMBDA x : x # c)
Has(s, c) == \E k \in 1..Len(s) : s[k] = c

\* the places where "->" and "..." start in s
Arrows(s) == {k \in 1..Len(s) - 1 : s[k] = "-" /\ s[k + 1] = ">"}
Ellipses(s) == {k \in 1..Len(s) - 2 : s[k] = "." /\ s[k + 1] = "." /\ s[k + 2] = "."}

RECURSIVE Split(_, _)
\* s.split(sep) for a character sep
Split(s, sep) ==
    IF ~Has(s, sep) THEN <<s>>
    ELSE LET k == CHOOSE k \in 1..Len(s) : s[k] = sep /\ \A m \in 1..(k - 1) : s[m] # sep
         IN <<SubSeq(s, 1, k - 1)>> \o Split(SubSeq(s, k + 1, Len(s)), sep)

RECURSIVE Join(_, _)
\* sep.join(terms)
Join(terms, sep) ==
    IF terms = <<>> THEN <<>>
    ELSE IF Len(terms) = 1 THEN terms[1]
    ELSE terms[1] \o <<sep>> \o Join(Tail(terms), sep)

RECURSIVE ReplaceEllipsis(_, _)
\* s.replace("...", rep)
ReplaceEllipsis(s, rep) ==
    IF Len(s) < 3 THEN s
    ELSE IF 1 \in Ellipses(s) THEN rep \o ReplaceEllipsis(SubSeq(s, 4, Len(s)), rep)
    ELSE <<s[1]>> \o ReplaceEllipsis(Tail(s), rep)

\* the labels that occur exactly once in s, sorted:
\* for s in sorted(set(tmp)): if tmp.count(s) == 1: output += s
OnceSorted(s) == SelectSeq(einsum_symbols, LAMBDA c : Count(s, c) = 1)

\* s[-n:] for 0 < n, and the empty string for n = 0
LastOf(s, n) == SubSeq(s, Len(s) - n + 1, Len(s))

ParseError(e) == [ins |-> <<>>, out |-> <<>>, err |-> e]

\* one round of the loop over the input terms of a string with an ellipsis:
\* term number num is checked and its "..." replaced by the last letters of
\* ellipse_inds, as many as the operand has dimensions left over.  The operand
\* is read through .shape (which a list or a number does not have) and .ndim
\* (which an ndarray has, and a loupe Node has not)
parse_ellipsis_term(h, operands, sub, num, ellipse_inds) ==
    IF ~Has(sub, ".") THEN [sub |-> sub, count |-> 0, err |-> ""]
    ELSE IF Count(sub, ".") # 3 \/ Ellipses(sub) = {}
    THEN [sub |-> sub, count |-> 0, err |-> "ValueError"]
    ELSE IF num > Len(operands) THEN [sub |-> sub, count |-> 0, err |-> "IndexError"]
    ELSE IF operands[num].ty \notin {"node", "ndarray"}
    THEN [sub |-> sub, count |-> 0, err |-> "AttributeError"]
    ELSE LET x == operands[num]
             shape == IF x.ty = "node" THEN h[x.id].data.shape ELSE x.val.shape
             ellipse_count == (IF shape = <<>> THEN 0 ELSE Len(shape)) - (Len(sub) - 3)
         IN IF shape # <<>> /\ x.ty = "node"
            THEN [sub |-> sub, count |-> 0, err |-> "AttributeError"]
            ELSE IF ellipse_count < 0
            THEN [sub |-> sub, count |-> 0, err |-> "ValueError"]
            ELSE [sub |-> ReplaceEllipsis(sub, LastOf(ellipse_inds, ellipse_count)),
                  count |-> ellipse_count, err |-> ""]

RECURSIVE parse_ellipsis_terms(_, _, _, _, _)
\* the loop over terms[1..num]: the terms rewritten, the longest ellipsis, the
\* first exception
parse_ellipsis_terms(h, operands, terms, num, ellipse_inds) ==
    IF num = 0 THEN [terms |-> <<>>, longest |-> 0, err |-> ""]
    ELSE LET before == parse_ellipsis_terms(h, operands, terms, num - 1, ellipse_inds)
         IN IF before.err # "" THEN before
            ELSE LET r == parse_ellipsis_term(h, operands, terms[num], num, ellipse_inds)
                 IN [terms |-> Append(before.terms, r.sub),
                     longest |-> IF r.count > before.longest THEN r.count ELSE before.longest,
                     err |-> r.err]

\* the last two checks of the parser: every output character occurs in the
\* input, and there are as many terms as operands
parse_finish(ins, out, operands) ==
    IF \E k \in 1..Len(out) : ~Has(ins, out[k]) THEN ParseError("ValueError")
    ELSE IF Len(Split(ins, ",")) # Len(operands) THEN ParseError("ValueError")
    ELSE [ins |-> ins, out |-> out, err |-> ""]

\* a parser that puts the labels of an implicit output in the order of their
\* first occurrence
parse_output_mutant_unsorted(s) ==
    SelectSeq(s, LAMBDA c : Count(s, c) = 1)

\* the output labels of a string without "->"
parse_output(s) == OnceSorted(s)

\* _parse_einsum_input((subscripts, *operands)): the input string and the
\* output string returned, or the exception raised.  ellipse_inds is the string
\* of unused letters the parser builds from a set, in an order the
\* interpreter chooses
_parse_einsum_input(h, subscripts0, operands, ellipse_inds) ==
    LET subscripts == Without(subscripts0, " ")
        has_out == Arrows(subscripts) # {}
        k == CHOOSE k \in Arrows(subscripts) : TRUE
        input_tmp == IF has_out THEN SubSeq(subscripts, 1, k - 1) ELSE subscripts
        output_sub == IF has_out THEN SubSeq(subscripts, k + 2, Len(subscripts)) ELSE <<>>
    IN IF \E m \in 1..Len(subscripts) :
              subscripts[m] \notin {".", ",", "-", ">"} /\ ~IsSymbol(subscripts[m])
       THEN ParseError("ValueError")
       ELSE IF (Has(subscripts, "-") \/ Has(subscripts, ">"))
               /\ (Count(subscripts, "-") > 1 \/ Count(subscripts, ">") > 1
                   \/ Cardinality(Arrows(subscripts)) # 1)
       THEN ParseError("ValueError")
       ELSE IF Has(subscripts, ".")
       THEN LET split_subscripts == Split(input_tmp, ",")
                r == parse_ellipsis_terms(h, operands, split_subscripts,
                                          Len(split_subscripts), ellipse_inds)
                ins == Join(r.terms, ",")
                out_ellipse == LastOf(ellipse_inds, r.longest)
                once == parse_output(Without(ins, ","))
                normal_inds == SelectSeq(once, LAMBDA c : ~Has(out_ellipse, c))
            IN IF r.err # "" THEN ParseError(r.err)
               ELSE IF has_out
               THEN parse_finish(ins, ReplaceEllipsis(output_sub, out_ellipse), operands)
               ELSE parse_finish(ins, out_ellipse \o normal_inds, operands)
       ELSE IF has_out THEN parse_finish(input_tmp, output_sub, operands)
       ELSE parse_finish(subscripts, parse_output(Without(subscripts, ",")), operands)

(***************************************************************************)
(* The heap of graph objects.  Object n is heap[n]; cls "array" is a leaf  *)
(* (core.array), every other cls is a Function node.  args are the         *)
(* operands the node computes with (self.left, self.right, self.input,     *)
(* self.a, self.b), inputs is what the constructor handed to               *)
(* Function.__init__ (an object number, or Raw for an object that is no    *)
(* graph node).  The exponent of a power node is exp when it is a Python    *)
(* int, the buffer expa when it is a constant ndarray, and args[2] when it *)
(* is a graph node (self.exp is never handed to Function.__init__).  The   *)
(* index expression of a slice node is slc: the positions of the input it  *)
(* selects, in order, and the shape of the selection.  calls               *)
(* counts the forward() invocations of the node in the running top-level   *)
(* operation.  A tensordot node holds self.axes in axes and the partitions *)
(* self.a_axes, self.b_axes, self.c_axes its forward() recorded in part;   *)
(* an einsum node holds self.in_subs and self.out_sub.                     *)
(***************************************************************************)
Raw == 0

\* the slc of an object that is no slice node
NoSlice == [pos |-> <<>>, shape |-> <<>>]

Objects == 1..Len(heap)

\* optim when no Blueprint has been built
NoBlueprint == [fun |-> Raw, params |-> <<>>]

\* np.asarray(None, dtype=bool): the mask of an array constructed without one
NoneMask == [dt |-> "bool", shape |-> <<>>, v |-> <<FALSE>>]

IsArray(h, n) == h[n].cls = "array"

Leaves == {n \in Objects : IsArray(heap, n)}

Functions == {n \in Objects : ~IsArray(heap, n)}

\* array.__init__(object, mask=None, requires_grad): grad is a float buffer of
\* the data's shape
array_init(object, requires_grad) ==
    [cls |-> "array", args |-> <<>>, inputs |-> <<>>, data |-> object,
     rg |-> requires_grad, grad |-> Zeros("float64", object.shape),
     cache |-> <<>>, exp |-> 0, expa |-> NoBuf, slc |-> NoSlice, axes |-> NoAxes,
     part |-> NoPart, in_subs |-> <<>>, out_sub |-> <<>>, unitary |-> FALSE,
     out_shape |-> <<>>, f |-> NoBuf, mask |-> NoneMask, gain_bias_invariant |-> FALSE, calls |-> 0]

\* array.__init__(object, mask=mask, requires_grad) for a mask that np.asarray
\* turns into the boolean buffer mask
array_init_mask(object, mask, requires_grad) ==
    [array_init(object, requires_grad) EXCEPT !.mask = mask]

\* the value written by array.__setitem__(index, value): index 0 stands for the
\* Ellipsis (every element), index k >= 1 for element k; the value is converted
\* to the data's dtype and written in place
array_setitem(a, index, value) ==
    [a EXCEPT !.data.v = [i \in 1..Size(a.data.shape) |->
                            IF index = 0 \/ index = i THEN <<value, 0>> ELSE @[i]]]

\* a zero_grad that leaves the buffer as it is
zero_grad_mutant_keep(a) == a

\* array.zero_grad(): np.zeros_like(self._data)
zero_grad(a) == [a EXCEPT !.grad = Zeros(a.data.dt, a.data.shape)]

\* self.dtype in (np.float32, np.float64)
IsFloatDtype(dt) == dt \in {"float32", "float64"}

\* what array.backward adds to the gradient buffer
Addend(a, g) == IF IsFloatDtype(a.data.dt) THEN np_real(g) ELSE g

\* buf += x fails unless x broadcasts to buf's shape and the sum casts to buf's dtype
InPlaceError(buf, x) ==
    IF ~CanCastSameKind(Promote(buf.dt, x.dt), buf.dt) THEN "UFuncTypeError"
    ELSE IF ~(BCompatible(buf.shape, x.shape) /\ BShape(buf.shape, x.shape) = buf.shape)
         THEN "ValueError"
    ELSE ""

InPlaceAdd(buf, x) == Mk(buf.dt, buf.shape, [i \in 1..Size(buf.shape) |-> CAdd(buf.v[i], At(x, buf.shape, i))])

\* a backward that accumulates whatever requires_grad is
array_backward_mutant_noflag(a, g) ==
    IF InPlaceError(a.grad, Addend(a, g)) # "" THEN [a |-> a, err |-> InPlaceError(a.grad, Addend(a, g))]
    ELSE [a |-> [a EXCEPT !.grad = InPlaceAdd(a.grad, Addend(a, g))], err |-> ""]
\* a backward that rebinds grad to grad + x instead of adding in place
array_backward_mutant_rebind(a, g) ==
    IF ~a.rg THEN [a |-> a, err |-> ""]
    ELSE IF ~BCompatible(a.grad.shape, Addend(a, g).shape) THEN [a |-> a, err |-> "ValueError"]
    ELSE [a |-> [a EXCEPT !.grad = np_add(a.grad, Addend(a, g))], err |-> ""]

\* array.backward(grad) on leaf a: the leaf afterwards and the exception raised ("" if none)
array_backward(a, g) ==
    IF ~a.rg THEN [a |-> a, err |-> ""]
    ELSE LET x == Addend(a, g)
             e == InPlaceError(a.grad, x)
         IN IF e # "" THEN [a |-> a, err |-> e]
            ELSE [a |-> [a EXCEPT !.grad = InPlaceAdd(a.grad, x)], err |-> ""]

(***************************************************************************)
(* Function nodes: requires_grad, forward evaluation, backward pass.       *)
(***************************************************************************)
Binary == {"add", "subtract", "multiply", "tensordot"}
Unary == {"power", "sum"}

\* the exponents of power nodes (Python ints)
Exponents == {2}

RECURSIVE AnyInput(_, _, _)
RECURSIVE requires_grad(_, _)

\* any([input.requires_grad for input in inputs[1..k]]): every element is evaluated;
\* an input that is no graph node has no requires_grad attribute
AnyInput(h, inputs, k) ==
    IF k = 0 THEN "false"
    ELSE LET rest == AnyInput(h, inputs, k - 1)
             this == IF inputs[k] = Raw THEN "error" ELSE requires_grad(h, inputs[k])
         IN IF rest = "error" \/ this = "error" THEN "error"
            ELSE IF rest = "true" \/ this = "true" THEN "true"
            ELSE "false"

\* Function.requires_grad
Function_requires_grad(h, n) == AnyInput(h, h[n].inputs, Len(h[n].inputs))

\* x.requires_grad of object x: "true", "false", or "error" (AttributeError)
requires_grad(h, x) ==
    IF IsArray(h, x) THEN (IF h[x].rg THEN "true" ELSE "false")
    ELSE Function_requires_grad(h, x)

(***************************************************************************)
(* loupe/cost.py: sserror on two-dimensional arrays (K = 1).  Its floating *)
(* values are exact fractions <<numerator, denominator>>, reduced and with *)
(* a positive denominator; an array of them is the sequence of its         *)
(* elements in row-major order.  np.seterr(all='raise') makes every        *)
(* division by zero raise FloatingPointError.                              *)
(***************************************************************************)
RECURSIVE GCD(_, _)
GCD(a, b) == IF b = 0 THEN a ELSE GCD(b, a % b)

\* the fraction n/d for d # 0
Q(n, d) ==
    <<((IF d < 0 THEN -n ELSE n) \div GCD(Abs(n), Abs(d))), (Abs(d) \div GCD(Abs(n), Abs(d)))>>

\* sums over the least common denominator, products after reducing crosswise
QAdd(x, y) ==
    Q((x[1] * (y[2] \div GCD(x[2], y[2]))) + (y[1] * (x[2] \div GCD(x[2], y[2]))),
      x[2] * (y[2] \div GCD(x[2], y[2])))
QSub(x, y) == QAdd(x, <<-y[1], y[2]>>)
QMul(x, y) ==
    Q((x[1] \div GCD(Abs(x[1]), y[2])) * (y[1] \div GCD(Abs(y[1]), x[2])),
      (x[2] \div GCD(Abs(y[1]), x[2])) * (y[2] \div GCD(Abs(x[1]), y[2])))
QDiv(x, y) == QMul(x, IF y[1] < 0 THEN <<-y[2], -y[1]>> ELSE <<y[2], y[1]>>)

RECURSIVE QSum(_, _)
\* np.sum over the elements q[1..k]
QSum(q, k) == IF k = 0 THEN <<0, 1>> ELSE QAdd(QSum(q, k - 1), q[k])

\* the elements of a real buffer as fractions
Fractions(buf) == [i \in 1..Size(buf.shape) |-> <<buf.v[i][1], 1>>]

\* mask=None
NoMask == <<>>

\* self.mask: the mask given when it has the shape of data, else
\* np.broadcast_to(mask, self.f.shape); a mask is a record [shape, v] of booleans
sserror_mask(mask, shape) ==
    IF mask = NoMask THEN NoMask
    ELSE [i \in 1..Size(shape) |-> mask.v[Pos(mask.shape, shape, i)]]

\* mask * q, with True as 1 and False as 0; q itself when mask is None
Masked(mask, q) ==
    [i \in 1..Len(q) |-> IF mask = NoMask \/ mask[i] THEN q[i] ELSE <<0, 1>>]

\* np.sum(mask), np.prod(data.shape[-2:]) when mask is None
Count1(mask, n) == IF mask = NoMask THEN n ELSE Cardinality({i \in 1..n : mask[i]})

Times2(q1, q2) == [i \in 1..Len(q1) |-> QMul(q1[i], q2[i])]

\* sserror._G(data, mask): data - np.sum(mask * data) / np.sum(mask)
sserror_G(data, mask) ==
    IF Count1(mask, Len(data)) = 0 THEN [q |-> <<>>, err |-> "FloatingPointError"]
    ELSE [q |-> [i \in 1..Len(data) |->
                    QSub(data[i], QDiv(QSum(Masked(mask, data), Len(data)),
                                       <<Count1(mask, Len(data)), 1>>))],
          err |-> ""]

\* sserror._fit_gain(_f, _g, mask): np.sum(mask * _f * _g) / np.sum(mask * _g**2);
\* FloatingPointError becomes ZeroDivisionError if np.all(_g == 0)
sserror_fit_gain(_f, _g, mask) ==
    IF QSum(Masked(mask, Times2(_g, _g)), Len(_g)) = <<0, 1>>
    THEN [q |-> <<0, 1>>,
          err |-> IF \A i \in 1..Len(_g) : _g[i] = <<0, 1>> THEN "ZeroDivisionError"
                  ELSE "FloatingPointError"]
    ELSE [q |-> QDiv(QSum(Masked(mask, Times2(_f, _g)), Len(_g)),
                     QSum(Masked(mask, Times2(_g, _g)), Len(_g))),
          err |-> ""]

\* self._D = np.sum(self.f ** 2 * self.mask), which is also the denominator
\* of sse
sserror_D(f, mask) == QSum(Masked(mask, Times2(f, f)), Len(f))

\* sse = 1/K * np.sum(np.square(resid)) / np.sum(mask * np.square(f)), with the
\* residual and the gain that forward caches
sserror_sse(resid, alpha, f, mask) ==
    IF sserror_D(f, mask) = <<0, 1>>
    THEN [val |-> <<0, 1>>, resid |-> resid, alpha |-> alpha, err |-> "FloatingPointError"]
    ELSE [val |-> QDiv(QSum(Times2(resid, resid), Len(resid)), sserror_D(f, mask)),
          resid |-> resid, alpha |-> alpha, err |-> ""]

\* forward with gain_bias_invariant after _G(g) with outcome _g and _fit_gain
\* with outcome alpha: resid = mask * (_g * alpha - _f)
sserror_invariant(_f, _g, alpha, f, mask) ==
    IF _g.err # "" THEN [val |-> <<0, 1>>, resid |-> <<>>, alpha |-> <<0, 1>>, err |-> _g.err]
    ELSE IF alpha.err # ""
    THEN [val |-> <<0, 1>>, resid |-> <<>>, alpha |-> <<0, 1>>, err |-> alpha.err]
    ELSE sserror_sse(Masked(mask, [i \in 1..Len(f) |-> QSub(QMul(_g.q[i], alpha.q), _f[i])]),
                     alpha.q, f, mask)

sserror_gain(_f, _g, f, mask) ==
    sserror_invariant(_f, _g, IF _g.err # "" THEN _g ELSE sserror_fit_gain(_f, _g.q, mask), f, mask)

\* sserror.forward() on the model g: the value float(sse), what is cached,
\* the exception
sserror_forward(g, f, mask, gain_bias_invariant) ==
    IF gain_bias_invariant
    THEN sserror_gain(sserror_G(f, mask).q, sserror_G(g, mask), f, mask)
    ELSE sserror_sse(Masked(mask, [i \in 1..Len(f) |-> QSub(g[i], f[i])]), <<1, 1>>, f, mask)

\* forward() of sserror node node on the value of its model
sserror_of(node, g) ==
    sserror_forward(Fractions(g), Fractions(node.f), node.mask, node.gain_bias_invariant)

\* a Python float, held as the fraction q
Float(q) == [dt |-> "float", shape |-> <<>>, v |-> <<q>>]

\* np.einsum(subs, mask * resid, (2/self._D) * grad * alpha) of
\* sserror.backward for a real scalar grad, as fractions
sserror_grad(resid, alpha, f, mask, g) ==
    [i \in 1..Len(resid) |->
        QMul(Masked(mask, resid)[i],
             QMul(QMul(QDiv(<<2, 1>>, sserror_D(f, mask)), <<g.v[1][1], 1>>), alpha))]

\* a float64 array of a shape with the elements q; the gradients the model
\* hands to sserror.backward make every element whole
Whole(shape, q) == Mk("float64", shape, [i \in 1..Len(q) |-> <<q[i][1] \div q[i][2], 0>>])

\* the operation of a node applied to its operands' values
\* what the operation's own routine returns for the operand values: _tensordot
\* its result, exception and axis partitions, sserror its value, exception,
\* residual and gain; the other operations compute in place (Apply)
Operated(node, vals) ==
    IF node.cls = "tensordot"
    THEN _tensordot(vals[1], vals[2], node.axes, node.part.a_axes, node.part.b_axes,
                    node.part.c_axes)
    ELSE IF node.cls = "sserror" THEN sserror_of(node, vals[1])
    ELSE [y |-> NoBuf, err |-> ""]

\* the value forward() computes from the operand values, r being what the
\* operation's own routine returned
Apply(node, vals, r) ==
    CASE node.cls = "add" -> np_add(vals[1], vals[2])
      [] node.cls = "subtract" -> np_subtract(vals[1], vals[2])
      [] node.cls = "multiply" -> np_multiply(vals[1], vals[2])
      [] node.cls = "tensordot" -> r.y
      [] node.cls = "einsum" -> np_einsum(Split(node.in_subs, ","), node.out_sub, vals)
      [] node.cls = "dft2" -> dft2_forward(vals[1], vals[2], node.out_shape, node.unitary)
      [] node.cls = "sserror" -> Float(r.val)
      [] node.cls = "power" ->
             IF Len(vals) = 2 THEN np_power_array(vals[1], vals[2])
             ELSE IF node.expa # NoBuf THEN np_power_array(vals[1], node.expa)
             ELSE np_power(vals[1], node.exp)
      [] node.cls = "sum" -> np_sum(vals[1])
      [] node.cls = "exp" -> np_exp(vals[1])
      [] node.cls = "slice" ->
             Mk(vals[1].dt, node.slc.shape,
                [j \in 1..Len(node.slc.pos) |-> vals[1].v[node.slc.pos[j]]])

\* the exception the operation raises: _tensordot's checks of the axes, and
\* np.einsum's of the operands against the subscripts
ApplyError(node, vals, r) ==
    IF node.cls = "tensordot" THEN r.err
    ELSE IF node.cls = "einsum"
    THEN np_einsum_error(Split(node.in_subs, ","), node.out_sub, vals)
    ELSE IF node.cls = "dft2" THEN dft2_error(vals[2])
    ELSE IF node.cls = "sserror" THEN r.err
    ELSE ""

\* the axis partitions tensordot.forward stores after _tensordot returned
Recorded(node, r) ==
    IF node.cls = "tensordot"
    THEN [a_axes |-> r.a_axes, b_axes |-> r.b_axes, c_axes |-> r.c_axes]
    ELSE node.part

\* what forward() hands to cache_for_backward: the operands' values (power
\* caches its base, not its exponent; exp caches its result; einsum caches the
\* result as well; sserror caches resid and alpha), y being the value the
\* operation computed and r what its own routine returned
Cached(node, vals, y, r) ==
    IF node.cls = "power" THEN <<vals[1]>>
    ELSE IF node.cls = "exp" THEN <<y>>
    ELSE IF node.cls = "einsum" THEN Append(vals, y)
    ELSE IF node.cls = "sserror" THEN <<r.resid, r.alpha>>
    ELSE vals

\* the heap after the data of leaf n was written in place: forward() cached the
\* buffers getdata() returned, and a leaf returns its data buffer itself, so a
\* cache entry that holds an operand which is leaf n shows the data as written
\* (exp and sserror cache what they computed)
WrittenThrough(h, n) ==
    [m \in 1..Len(h) |->
        IF IsArray(h, m) \/ h[m].cls \in {"exp", "sserror"} THEN h[m]
        ELSE [h[m] EXCEPT !.cache =
                  [k \in 1..Len(@) |->
                      IF k <= Len(h[m].args) /\ h[m].args[k] = n THEN h[n].data ELSE @[k]]]]

RECURSIVE forward(_, _)
RECURSIVE GetArgs(_, _, _)

\* self._data = r, for the outcome r of forward() when it returned
StoreData(n, r) == IF r.err # "" THEN r ELSE [r EXCEPT !.h[n].data = r.val]

\* a data property that hands out the stored output without evaluating
Function_data_mutant_stored(h, n) == [h |-> h, val |-> h[n].data, err |-> ""]
\* a data property that evaluates a node once per read and reuses its output
Function_data_mutant_memo(h, n) ==
    IF h[n].calls > 0 THEN [h |-> h, val |-> h[n].data, err |-> ""]
    ELSE StoreData(n, forward(h, n))

\* Function.data: self._data = np.asarray(self.forward()); return self._data
Function_data(h, n) == StoreData(n, forward(h, n))

\* Node.getdata() of object x: a leaf hands out its buffer, a Function node evaluates
getdata(h, x) ==
    IF IsArray(h, x) THEN [h |-> h, val |-> h[x].data, err |-> ""]
    ELSE Function_data(h, x)

\* the operands read so far, and the outcome r of reading the next one
ArgRead(before, r) ==
    [h |-> r.h, vals |-> IF r.err = "" THEN Append(before.vals, r.val) ELSE before.vals,
     err |-> r.err]

\* operand x read after the operands before it, unless one of them raised
NextArg(before, x) ==
    IF before.err # "" THEN before ELSE ArgRead(before, getdata(before.h, x))

\* the operands args[1..k] read in order, each through getdata
GetArgs(h, args, k) ==
    IF k = 0 THEN [h |-> h, vals |-> <<>>, err |-> ""]
    ELSE NextArg(GetArgs(h, args, k - 1), args[k])

\* forward() after the operands were read with outcome a, when the operation,
\* whose own routine returned r, raises e or returns y
Computed(h, n, a, r, e, y) ==
    [h |-> [a.h EXCEPT ![n].calls = @ + 1,
                       ![n].cache = IF h[n].cls \in {"einsum", "dft2", "sserror"} /\ e # "" THEN @
                                    ELSE Cached(h[n], a.vals, y, r),
                       ![n].part = IF e # "" THEN @ ELSE Recorded(h[n], r)],
     val |-> IF e # "" THEN NoBuf ELSE y,
     err |-> e]

\* forward() after the operands were read with outcome a and the operation's
\* own routine returned r
Operation(h, n, a, r) ==
    Computed(h, n, a, r, ApplyError(h[n], a.vals, r), Apply(h[n], a.vals, r))

\* forward() after the operands were read with outcome a
Forwarded(h, n, a) ==
    IF a.err # "" THEN [h |-> [a.h EXCEPT ![n].calls = @ + 1], val |-> NoBuf, err |-> a.err]
    ELSE Operation(h, n, a, Operated(h[n], a.vals))

\* forward() of Function node n: read the operands, cache_for_backward, compute
forward(h, n) == Forwarded(h, n, GetArgs(h, h[n].args, Len(h[n].args)))

\* a constructor that does not run forward()
Function_init_mutant_lazy(h, n) == [h |-> h, val |-> NoBuf, err |-> ""]

\* Function.__init__(*inputs): self._cache = []; self._data = self.forward()
Function_init(h, n) == StoreData(n, forward(h, n))

\* grad.sum(axis=0): the leading dimension is summed out
sum_axis0(g) ==
    IF Len(g.shape) = 2
    THEN Mk(g.dt, <<g.shape[2]>>,
            [j \in 1..g.shape[2] |->
                SumTo([i \in 1..g.shape[1] |-> g.v[((i - 1) * g.shape[2]) + j]], g.shape[1])])
    ELSE np_sum(g)

\* grad.sum(axis=n-1, keepdims=True) for an axis the buffer has; on a rank-0
\* buffer axis 0 is accepted and changes nothing
sum_keepdims(g, n) ==
    CASE g.shape = <<>> /\ n = 1 -> g
      [] Len(g.shape) = 1 /\ n = 1 -> Mk(g.dt, <<1>>, <<SumTo(g.v, g.shape[1])>>)
      [] Len(g.shape) = 2 /\ n = 1 -> LET t == sum_axis0(g) IN Mk(g.dt, <<1, g.shape[2]>>, t.v)
      [] Len(g.shape) = 2 /\ n = 2 ->
             Mk(g.dt, <<g.shape[1], 1>>,
                [i \in 1..g.shape[1] |->
                    SumTo([j \in 1..g.shape[2] |-> g.v[((i - 1) * g.shape[2]) + j]], g.shape[2])])

\* a _broadcast_grad that sums out the added dimensions only
broadcast_grad_mutant_added(g, shape) ==
    IF Len(g.shape) - Len(shape) = 2 THEN sum_axis0(sum_axis0(g))
    ELSE IF Len(g.shape) - Len(shape) = 1 THEN sum_axis0(g)
    ELSE g

\* _broadcast_grad(grad, array_shape): sum out the added dimensions, then sum
\* across the dimensions of size 1 (keepdims)
broadcast_grad(g, shape) ==
    LET added == Len(g.shape) - Len(shape)
        g0 == IF added = 2 THEN sum_axis0(sum_axis0(g))
              ELSE IF added = 1 THEN sum_axis0(g)
              ELSE g
        g1 == IF Len(shape) >= 1 /\ shape[1] = 1 THEN sum_keepdims(g0, 1) ELSE g0
    IN IF Len(shape) = 2 /\ shape[2] = 1 THEN sum_keepdims(g1, 2) ELSE g1

\* np.full(shape, grad, dtype=dt): grad is broadcast to shape and converted to dt
\* (a complex value loses its imaginary part in a real buffer)
np_full_error(shape, g) ==
    IF BCompatible(shape, g.shape) /\ BShape(shape, g.shape) = shape THEN "" ELSE "ValueError"

np_full(shape, g, dt) ==
    Mk(dt, shape, [i \in 1..Size(shape) |->
                     IF dt = "complex128" THEN At(g, shape, i) ELSE <<At(g, shape, i)[1], 0>>])

RECURSIVE backward(_, _, _)

\* the outcome r of a backward that left the caller's buffer g as it was
Returned(r, g) == [h |-> r.h, err |-> r.err, g |-> g]

\* the two guarded dispatches of a binary node: each operand's requires_grad is
\* read, and its backward called with its gradient, left first
Dispatch2(h, n, gl, gr) ==
    LET l == h[n].args[1]
        r == h[n].args[2]
        ql == requires_grad(h, l)
    IN IF ql = "error" THEN [h |-> h, err |-> "AttributeError"]
       ELSE LET s1 == IF ql = "true" THEN backward(h, l, gl) ELSE [h |-> h, err |-> ""]
            IN IF s1.err # "" THEN s1
               ELSE LET qr == requires_grad(s1.h, r)
                    IN IF qr = "error" THEN [h |-> s1.h, err |-> "AttributeError"]
                       ELSE IF qr = "true" THEN backward(s1.h, r, gr)
                       ELSE s1

\* _broadcast_grad(grad, array_shape) sums nothing and returns grad itself, the
\* caller's buffer: no dimension was added and none of array_shape is 1
SameBuffer(g, shape) ==
    /\ Len(g.shape) <= Len(shape)
    /\ \A k \in 1..Len(shape) : shape[k] # 1

\* the outcome s of an input's backward on _broadcast_grad(g, shape), with the
\* caller's buffer g as it is afterwards: the buffer the input was given when
\* that was g itself
Handed(g, shape, s) ==
    [h |-> s.h, err |-> s.err, g |-> IF SameBuffer(g, shape) THEN s.g ELSE g]

\* if self.left.requires_grad: self.left.backward(_broadcast_grad(grad, left.shape))
backward_left(h, n, g) ==
    LET q == requires_grad(h, h[n].args[1])
    IN IF q = "error" THEN [h |-> h, err |-> "AttributeError", g |-> g]
       ELSE IF q = "false" THEN [h |-> h, err |-> "", g |-> g]
       ELSE Handed(g, h[n].cache[1].shape,
                   backward(h, h[n].args[1], broadcast_grad(g, h[n].cache[1].shape)))

\* add.backward after the left operand: the right operand is given
\* _broadcast_grad(grad, right.shape) of grad as it is by then
add_backward_right(n, s) ==
    IF s.err # "" THEN s
    ELSE LET q == requires_grad(s.h, s.h[n].args[2])
         IN IF q = "error" THEN [s EXCEPT !.err = "AttributeError"]
            ELSE IF q = "false" THEN s
            ELSE Handed(s.g, s.h[n].cache[2].shape,
                        backward(s.h, s.h[n].args[2], broadcast_grad(s.g, s.h[n].cache[2].shape)))

\* subtract.backward after the left operand: -grad is a new buffer
subtract_backward_right(n, s) ==
    IF s.err # "" THEN s
    ELSE LET q == requires_grad(s.h, s.h[n].args[2])
         IN IF q = "error" THEN [s EXCEPT !.err = "AttributeError"]
            ELSE IF q = "false" THEN s
            ELSE Returned(backward(s.h, s.h[n].args[2],
                                   broadcast_grad(np_negative(s.g), s.h[n].cache[2].shape)), s.g)

\* add.backward, subtract.backward, multiply.backward, tensordot.backward
add_backward(h, n, g) == add_backward_right(n, backward_left(h, n, g))

subtract_backward(h, n, g) == subtract_backward_right(n, backward_left(h, n, g))

multiply_backward(h, n, g) ==
    LET c == h[n].cache
    IN Dispatch2(h, n, broadcast_grad(np_multiply(np_conj(c[2]), g), c[1].shape),
                       broadcast_grad(np_multiply(np_conj(c[1]), g), c[2].shape))

\* a_grad: _tensordot(grad, b, axes, a_axes=self.c_axes,
\* b_axes=[self.b_axes[1], self.b_axes[0]], c_axes=self.a_axes)
tensordot_grad_a(node, g) ==
    _tensordot(g, node.cache[2], node.axes, node.part.c_axes,
               <<node.part.b_axes[2], node.part.b_axes[1]>>, node.part.a_axes)

\* b_grad: _tensordot(a, grad, axes, a_axes=[self.a_axes[1], self.a_axes[0]],
\* b_axes=self.c_axes, c_axes=self.b_axes)
tensordot_grad_b(node, g) ==
    _tensordot(node.cache[1], g, node.axes, <<node.part.a_axes[2], node.part.a_axes[1]>>,
               node.part.c_axes, node.part.b_axes)

\* if x.requires_grad (read as q): x.backward(r.y), for the outcome r of
\* _tensordot
tensordot_deliver(h, x, q, r) ==
    IF q = "error" THEN [h |-> h, err |-> "AttributeError"]
    ELSE IF q = "false" THEN [h |-> h, err |-> ""]
    ELSE IF r.err # "" THEN [h |-> h, err |-> r.err]
    ELSE backward(h, x, r.y)

\* the second half of tensordot.backward, after the first had outcome s
tensordot_backward_b(h, n, g, s) ==
    IF s.err # "" THEN s
    ELSE tensordot_deliver(s.h, h[n].args[2], requires_grad(s.h, h[n].args[2]),
                           tensordot_grad_b(h[n], g))

\* tensordot.backward(grad)
tensordot_backward(h, n, g) ==
    tensordot_backward_b(h, n, g,
                         tensordot_deliver(h, h[n].args[1], requires_grad(h, h[n].args[1]),
                                           tensordot_grad_a(h[n], g)))

\* np.dot(Wr.T.dot(x), Wc.T) with the conjugate kernels of a plane of shape
\* (m, n), for the plane x of the gradient
dft2_plane_grad(x, m, n, out_shape, alpha) ==
    dot3(np_transpose(np_conj(dft2_E1(m, out_shape[1], alpha[1])), <<1, 0>>), x,
         np_transpose(np_conj(dft2_E2(n, out_shape[2], alpha[2])), <<1, 0>>))

\* input_grad of dft2.backward from grad_clean = grad * norm_coeff, for the
\* cached input x and alpha
dft2_input_grad(grad_clean, x, out_shape, alpha) ==
    np_squeeze([k \in 1..Len(Planes(grad_clean)) |->
                   dft2_plane_grad(Planes(grad_clean)[k], Planes(x)[1].shape[1],
                                   Planes(x)[1].shape[2], out_shape, alpha)])

\* a backward that hands the conjugate kernels the gradient as it comes
dft2_backward_mutant_unscaled(h, n, g) ==
    backward(h, h[n].args[1],
             dft2_input_grad(g, h[n].cache[1], h[n].out_shape, dft2_alpha(h[n].cache[2])))

\* a backward that hands alpha the sum of the gradient
dft2_backward_mutant_alpha(h, n, g) ==
    backward(backward(h, h[n].args[1],
                      dft2_input_grad(Times(g, dft2_norm_coeff(dft2_alpha(h[n].cache[2]), h[n].unitary)),
                                      h[n].cache[1], h[n].out_shape, dft2_alpha(h[n].cache[2]))).h,
             h[n].args[2], Mk(g.dt, <<>>, <<SumTo(g.v, Size(g.shape))>>))

\* dft2.backward(grad): self.input.backward(input_grad), nothing for alpha
dft2_backward(h, n, g) ==
    backward(h, h[n].args[1],
             dft2_input_grad(Times(g, dft2_norm_coeff(dft2_alpha(h[n].cache[2]), h[n].unitary)),
                             h[n].cache[1], h[n].out_shape, dft2_alpha(h[n].cache[2])))

\* sserror.backward(grad): self.g.backward(grad), with 2/self._D raising
\* when _D is zero
sserror_backward(h, n, g) ==
    IF sserror_D(Fractions(h[n].f), h[n].mask) = <<0, 1>> THEN [h |-> h, err |-> "FloatingPointError"]
    ELSE backward(h, h[n].args[1],
                  Whole(h[n].f.shape,
                        sserror_grad(h[n].cache[1], h[n].cache[2], Fractions(h[n].f), h[n].mask, g)))

\* power.backward: self.exp * np.power(input, self.exp-1) * grad, to the base.
\* With an exponent that is a graph node the product is a multiply node
\* (Node.__mul__), not an ndarray: a base leaf without requires_grad ignores it,
\* a float base leaf with requires_grad reads its .real, which a Function does
\* not have (the model builds a node exponent over such base leaves only)
power_backward(h, n, g) ==
    LET c == h[n].cache
        b == h[n].args[1]
    IN IF Len(h[n].args) = 2
       THEN CASE IsArray(h, b) /\ ~h[b].rg -> [h |-> h, err |-> ""]
              [] IsArray(h, b) /\ h[b].rg /\ IsFloatDtype(h[b].data.dt) ->
                     [h |-> h, err |-> "AttributeError"]
       ELSE IF h[n].expa # NoBuf
       THEN backward(h, b,
                     np_multiply(np_multiply(h[n].expa,
                                             np_power_array(c[1], np_subtract(h[n].expa, Ramp("int64", <<>>, 1)))),
                                 g))
       ELSE backward(h, b, np_multiply(np_scale(h[n].exp, np_power(c[1], h[n].exp - 1)), g))

\* sum.backward: np.full(result.shape, grad, dtype=result.dtype), to the input
sum_backward(h, n, g) ==
    LET c == h[n].cache
    IN IF np_full_error(c[1].shape, g) # "" THEN [h |-> h, err |-> np_full_error(c[1].shape, g)]
       ELSE backward(h, h[n].args[1], np_full(c[1].shape, g, c[1].dt))

\* the conversion of a number to a dtype on assignment into a buffer (casting
\* 'unsafe'): a real buffer drops the imaginary part, an integer buffer also
\* the fraction (towards zero)
Trunc(r) == IF r >= 0 THEN (r \div Frac) * Frac ELSE -(((-r) \div Frac) * Frac)

np_cast(x, dt) ==
    CASE dt = "complex128" -> x
      [] dt = "float64" -> <<x[1], 0>>
      [] dt = "int64" -> <<Trunc(x[1]), 0>>

\* slice.backward: result_grad = np.zeros(result.shape, dtype=result.dtype);
\* result_grad[self.slc] = grad (the last assignment to a position wins); to
\* the input
slice_backward(h, n, g) ==
    LET c == h[n].cache
        slc == h[n].slc
        Js(p) == {j \in 1..Len(slc.pos) : slc.pos[j] = p}
    IN IF ~(BCompatible(slc.shape, g.shape) /\ BShape(slc.shape, g.shape) = slc.shape)
       THEN [h |-> h, err |-> "ValueError"]
       ELSE backward(h, h[n].args[1],
                     Mk(c[1].dt, c[1].shape,
                        [p \in 1..Size(c[1].shape) |->
                            IF Js(p) = {} THEN <<0, 0>>
                            ELSE np_cast(At(g, slc.shape, CHOOSE j \in Js(p) : \A k \in Js(p) : k <= j),
                                         c[1].dt)]))

\* the contraction einsum.backward computes for input i: term i is replaced by
\* the output labels of the forward pass and operand i by grad; the output is
\* term i
einsum_grad_terms(node, i) ==
    [j \in 1..Len(Split(node.in_subs, ",")) |->
        IF j = i THEN node.out_sub ELSE Split(node.in_subs, ",")[j]]

einsum_grad_operands(node, g, i) ==
    [j \in 1..(Len(node.cache) - 1) |-> IF j = i THEN g ELSE node.cache[j]]

\* len(io_set) == len(out_sub): every character of term i is a different label,
\* and each of them occurs in the terms of the contraction
einsum_supported(node, i) ==
    LET out_sub == Split(node.in_subs, ",")[i]
        io_set == {c \in {out_sub[k] : k \in 1..Len(out_sub)} :
                      c \in LabelsOf(einsum_grad_terms(node, i))}
    IN Cardinality(io_set) = Len(out_sub)

RECURSIVE einsum_backward_from(_, _, _, _)
\* the loop of einsum.backward over the inputs i, i+1, ... that require a
\* gradient: the contraction, then the input's backward
einsum_backward_from(h, n, g, i) ==
    IF i > Len(h[n].inputs) THEN [h |-> h, err |-> ""]
    ELSE IF requires_grad(h, h[n].inputs[i]) # "true" THEN einsum_backward_from(h, n, g, i + 1)
    ELSE IF ~einsum_supported(h[n], i) THEN [h |-> h, err |-> "NotImplementedError"]
    ELSE LET terms == einsum_grad_terms(h[n], i)
             out == Split(h[n].in_subs, ",")[i]
             ops == einsum_grad_operands(h[n], g, i)
         IN IF np_einsum_error(terms, out, ops) # ""
            THEN [h |-> h, err |-> np_einsum_error(terms, out, ops)]
            ELSE LET r == backward(h, h[n].inputs[i], np_einsum(terms, out, ops))
                 IN IF r.err # "" THEN r ELSE einsum_backward_from(r.h, n, g, i + 1)

\* einsum.backward: the requires_grad of every input is read first
einsum_backward(h, n, g) ==
    IF \E i \in 1..Len(h[n].inputs) : requires_grad(h, h[n].inputs[i]) = "error"
    THEN [h |-> h, err |-> "AttributeError"]
    ELSE einsum_backward_from(h, n, g, 1)

\* what grad *= result leaves in grad
InPlaceMultiply(buf, x) ==
    Mk(buf.dt, buf.shape, [i \in 1..Size(buf.shape) |-> CMul(buf.v[i], At(x, buf.shape, i))])

\* np.any(np.iscomplex(result)): some element has a non-zero imaginary part
AnyIsComplex(a) == \E i \in 1..Size(a.shape) : a.v[i][2] # 0

\* exp.backward: with a complex result grad = grad * np.conj(result), a new
\* buffer; otherwise grad *= result in the buffer it was given, which is then
\* handed to the input
exp_backward(h, n, g) ==
    IF AnyIsComplex(h[n].cache[1])
    THEN Returned(backward(h, h[n].args[1], np_multiply(g, np_conj(h[n].cache[1]))), g)
    ELSE IF InPlaceError(g, h[n].cache[1]) # ""
    THEN [h |-> h, err |-> InPlaceError(g, h[n].cache[1]), g |-> g]
    ELSE backward(h, h[n].args[1], InPlaceMultiply(g, h[n].cache[1]))

\* x.backward(g) of object x: the heap afterwards (with what was accumulated
\* before an exception), the exception raised, and the caller's buffer g as it
\* is afterwards.  (An einsum over one operand may hand a view of grad to its
\* input; no specification here puts an exp node under an einsum.)
backward(h, x, g) ==
    IF IsArray(h, x)
    THEN LET r == array_backward(h[x], g) IN [h |-> [h EXCEPT ![x] = r.a], err |-> r.err, g |-> g]
    ELSE IF h[x].cache = <<>> THEN [h |-> h, err |-> "EmptyCache", g |-> g]
    ELSE CASE h[x].cls = "add" -> add_backward(h, x, g)
           [] h[x].cls = "subtract" -> subtract_backward(h, x, g)
           [] h[x].cls = "exp" -> exp_backward(h, x, g)
           [] h[x].cls = "multiply" -> Returned(multiply_backward(h, x, g), g)
           [] h[x].cls = "tensordot" -> Returned(tensordot_backward(h, x, g), g)
           [] h[x].cls = "power" -> Returned(power_backward(h, x, g), g)
           [] h[x].cls = "sum" -> Returned(sum_backward(h, x, g), g)
           [] h[x].cls = "slice" -> Returned(slice_backward(h, x, g), g)
           [] h[x].cls = "einsum" -> Returned(einsum_backward(h, x, g), g)
           [] h[x].cls = "dft2" -> Returned(dft2_backward(h, x, g), g)
           [] h[x].cls = "sserror" -> Returned(sserror_backward(h, x, g), g)

(***************************************************************************)
(* loupe.asarray and the operator constructors.  An operand handed to them *)
(* is a record [ty, id, val]: ty "node" is the graph object id, every      *)
(* other ty is the Python type of a raw value that np.asarray turns into   *)
(* the buffer val.                                                         *)
(***************************************************************************)
NodeRef(n) == [ty |-> "node", id |-> n, val |-> NoBuf]

PyObject(ty, val) == [ty |-> ty, id |-> Raw, val |-> val]

\* isinstance(a, (int, float, complex, list, tuple, np.ndarray))
ArrayLike == {"int", "float", "complex", "list", "tuple", "ndarray"}

\* raw values of the accepted types, and of types asarray does not accept
PyObjects ==
    {PyObject("int", Ramp("int64", <<>>, c)) : c \in Values}
    \cup {PyObject("float", Ramp("float64", <<>>, c)) : c \in Values}
    \cup {PyObject("complex", Seed("complex128", <<>>, c)) : c \in Values}
    \cup {PyObject("list", Ramp("int64", <<VecLen>>, c)) : c \in Values}
    \cup {PyObject("tuple", Ramp("float64", <<VecLen>>, c)) : c \in Values}
    \cup {PyObject("ndarray", Ramp("float64", <<VecLen>>, c)) : c \in Values}
    \cup {PyObject("str", NoBuf), PyObject("function", NoBuf), PyObject("NoneType", NoBuf)}

\* an asarray that wraps an Array into a new Array
asarray_mutant_copy(h, a) ==
    IF a.ty = "node" /\ IsArray(h, a.id)
    THEN [h |-> Append(h, array_init(h[a.id].data, FALSE)), ref |-> Len(h) + 1, err |-> ""]
    ELSE IF a.ty = "node" THEN [h |-> h, ref |-> a.id, err |-> ""]
    ELSE IF a.ty \in ArrayLike
    THEN [h |-> Append(h, array_init(a.val, FALSE)), ref |-> Len(h) + 1, err |-> ""]
    ELSE [h |-> h, ref |-> Raw, err |-> "TypeError"]

\* loupe.asarray(a): the heap afterwards, the object returned, the exception raised
asarray(h, a) ==
    IF a.ty = "node" THEN [h |-> h, ref |-> a.id, err |-> ""]
    ELSE IF a.ty \in ArrayLike
    THEN [h |-> Append(h, array_init(a.val, FALSE)), ref |-> Len(h) + 1, err |-> ""]
    ELSE [h |-> h, ref |-> Raw, err |-> "TypeError"]

\* what a constructor hands to Function.__init__: tensordot passes its arguments
\* as given (super().__init__(a, b)), power its base only, every other operator
\* the asarray results
InputsOf(cls, operands, refs) ==
    IF cls = "tensordot"
    THEN [i \in 1..Len(operands) |-> IF operands[i].ty = "node" THEN operands[i].id ELSE Raw]
    ELSE IF cls = "power" THEN <<refs[1]>>
    ELSE refs

\* the objects converted so far, and the outcome r of asarray on the next operand
ArrayAdded(before, r) == [h |-> r.h, refs |-> Append(before.refs, r.ref), err |-> r.err]

\* asarray on operand x after the operands before it, unless one of them raised
NextArray(before, x) ==
    IF before.err # "" THEN before ELSE ArrayAdded(before, asarray(before.h, x))

RECURSIVE AsArrays(_, _, _)
\* asarray on operands[1..k] in order
AsArrays(h, operands, k) ==
    IF k = 0 THEN [h |-> h, refs |-> <<>>, err |-> ""]
    ELSE NextArray(AsArrays(h, operands, k - 1), operands[k])

NewFunction(cls, args, inputs, e) ==
    [cls |-> cls, args |-> args, inputs |-> inputs, data |-> NoBuf, rg |-> FALSE,
     grad |-> NoBuf, cache |-> <<>>, exp |-> e, expa |-> NoBuf, slc |-> NoSlice,
     axes |-> IF cls = "tensordot" THEN IntAxes(1) ELSE NoAxes, part |-> NoPart,
     in_subs |-> <<>>, out_sub |-> <<>>, unitary |-> FALSE, out_shape |-> <<>>, f |-> NoBuf,
     mask |-> <<>>, gain_bias_invariant |-> FALSE, calls |-> 0]

ResetCalls(h) == [n \in 1..Len(h) |-> [h[n] EXCEPT !.calls = 0]]

\* the outcome of a constructor on heap h whose Function.__init__ had outcome r
\* for the new object n: an exception leaves no reference to the object
Initialised(h, n, r) ==
    IF r.err # "" THEN [h |-> SubSeq(r.h, 1, Len(h)), ref |-> Raw, err |-> r.err]
    ELSE [h |-> r.h, ref |-> n, err |-> ""]

\* the object node appended to heap h0 and initialised
WithNode(h, h0, node) == Initialised(h, Len(h0) + 1, Function_init(Append(h0, node), Len(h0) + 1))

\* cls(*operands) after asarray on the operands had outcome a
Constructing(h, cls, operands, e, a) ==
    IF a.err # "" THEN [h |-> h, ref |-> Raw, err |-> a.err]
    ELSE WithNode(h, a.h, NewFunction(cls, a.refs, InputsOf(cls, operands, a.refs), e))

\* cls(*operands): asarray on the operands, then Function.__init__; the heap
\* afterwards, the node constructed (Raw if the constructor raised), the exception
construct(h, cls, operands, e) ==
    Constructing(h, cls, operands, e, AsArrays(h, operands, Len(operands)))

\* power(x1, x2) after asarray(x1) had outcome a
ConstructingPower(h, x1, x2, a) ==
    IF a.err # "" THEN [h |-> h, ref |-> Raw, err |-> a.err]
    ELSE WithNode(h, a.h,
                  [NewFunction("power", IF x2.ty = "node" THEN <<a.ref, x2.id>> ELSE <<a.ref>>,
                               InputsOf("power", <<x1>>, <<a.ref>>), 0)
                       EXCEPT !.expa = IF x2.ty = "node" THEN NoBuf ELSE x2.val])

\* power(x1, x2) with an exponent x2 that is a constant ndarray or a graph node:
\* self.input = asarray(x1); self.exp = x2; Function.__init__(self.input)
construct_power(h, x1, x2) == ConstructingPower(h, x1, x2, asarray(h, x1))

\* slice(x, slc) after asarray(x) had outcome a
ConstructingSlice(h, x, slc, a) ==
    IF a.err # "" THEN [h |-> h, ref |-> Raw, err |-> a.err]
    ELSE WithNode(h, a.h,
                  [NewFunction("slice", <<a.ref>>, InputsOf("slice", <<x>>, <<a.ref>>), 0)
                       EXCEPT !.slc = slc])

\* slice(x, slc): self.input = asarray(x); self.slc = slc; Function.__init__
construct_slice(h, x, slc) == ConstructingSlice(h, x, slc, asarray(h, x))

\* tensordot(a, b, axes) after asarray on a and b had outcome r
ConstructingTensordot(h, a, b, axes, r) ==
    IF r.err # "" THEN [h |-> h, ref |-> Raw, err |-> r.err]
    ELSE WithNode(h, r.h,
                  [NewFunction("tensordot", r.refs, InputsOf("tensordot", <<a, b>>, r.refs), 0)
                       EXCEPT !.axes = axes])

\* tensordot(a, b, axes): self.a = asarray(a); self.b = asarray(b);
\* self.axes = np.asarray(axes); Function.__init__(a, b)
construct_tensordot(h, a, b, axes) ==
    ConstructingTensordot(h, a, b, axes, AsArrays(h, <<a, b>>, 2))

\* _cook_nd_args(a, s) with axes = None: the shape given, or the last two
\* dimensions of the input
_cook_nd_args(a_shape, s) == IF s = <<>> THEN SubSeq(a_shape, Len(a_shape) - 1, Len(a_shape)) ELSE s

\* dft2(x, alpha, shape, unitary=unitary) after asarray(x) had outcome a and
\* asarray(alpha) after it outcome b
ConstructingDft2(h, shape, unitary, a, b) ==
    IF a.err # "" THEN [h |-> h, ref |-> Raw, err |-> a.err]
    ELSE IF Len(a.h[a.ref].data.shape) \notin {2, 3} THEN [h |-> h, ref |-> Raw, err |-> "ValueError"]
    ELSE IF b.err # "" THEN [h |-> h, ref |-> Raw, err |-> b.err]
    ELSE WithNode(h, b.h,
                  [NewFunction("dft2", <<a.ref, b.ref>>, <<a.ref, b.ref>>, 0)
                       EXCEPT !.unitary = unitary,
                              !.out_shape = _cook_nd_args(a.h[a.ref].data.shape, shape)])

\* the second asarray of dft2.__init__
Dft2Alpha(h, alpha, shape, unitary, a) ==
    ConstructingDft2(h, shape, unitary, a, asarray(IF a.err = "" THEN a.h ELSE h, alpha))

\* dft2(x, alpha, shape=shape, unitary=unitary): self.input = asarray(x); the
\* check of ndim; self.alpha = asarray(alpha); Function.__init__(input, alpha)
construct_dft2(h, x, alpha, shape, unitary) == Dft2Alpha(h, alpha, shape, unitary, asarray(h, x))

\* sserror(model, data, mask, gain_bias_invariant) after asarray(model) had
\* outcome a: np.broadcast_to raises ValueError for a mask that does not
\* broadcast to the shape of data, and self._G(self.f, self.mask) may raise
ConstructingSserror(h, data, mask, gain_bias_invariant, a) ==
    IF a.err # "" THEN [h |-> h, ref |-> Raw, err |-> a.err]
    ELSE IF /\ mask # NoMask
            /\ ~(BCompatible(mask.shape, data.shape) /\ BShape(mask.shape, data.shape) = data.shape)
    THEN [h |-> h, ref |-> Raw, err |-> "ValueError"]
    ELSE IF sserror_G(Fractions(data), sserror_mask(mask, data.shape)).err # ""
    THEN [h |-> h, ref |-> Raw,
          err |-> sserror_G(Fractions(data), sserror_mask(mask, data.shape)).err]
    ELSE WithNode(h, a.h,
                  [NewFunction("sserror", <<a.ref>>, <<a.ref>>, 0)
                       EXCEPT !.f = data, !.mask = sserror_mask(mask, data.shape),
                              !.gain_bias_invariant = gain_bias_invariant])

\* sserror(model, data, mask, gain_bias_invariant): self.f = np.asarray(data);
\* self.g = loupe.asarray(model); the mask; self._f, self._K, self._D;
\* Function.__init__(self.g)
construct_sserror(h, model, data, mask, gain_bias_invariant) ==
    ConstructingSserror(h, data, mask, gain_bias_invariant, asarray(h, model))

\* the outcome c of an einsum constructor that got past the parser and
\* asarray, with what the parser returned
EinsumInitialised(c, p) ==
    [h |-> c.h, ref |-> c.ref, err |-> c.err, stage |-> IF c.err # "" THEN "forward" ELSE "",
     parsed |-> p]

\* einsum after the parser returned p and asarray on the operands had outcome r
EinsumOver(h, p, r) ==
    IF r.err # ""
    THEN [h |-> h, ref |-> Raw, err |-> r.err, stage |-> "asarray", parsed |-> p]
    ELSE EinsumInitialised(WithNode(h, r.h, [NewFunction("einsum", r.refs, r.refs, 0)
                                                 EXCEPT !.in_subs = p.ins, !.out_sub = p.out]),
                           p)

\* einsum after the parser had outcome p
ConstructingEinsum(h, operands, p) ==
    IF p.err # ""
    THEN [h |-> h, ref |-> Raw, err |-> p.err, stage |-> "parser", parsed |-> p]
    ELSE EinsumOver(h, p, AsArrays(h, operands, Len(operands)))

\* einsum(subscripts, *operands): the parser, asarray on the operands it
\* returns, then Function.__init__; parsed is what the parser returned, stage
\* names the step that raised
construct_einsum(h, subscripts, operands, ellipse_inds) ==
    ConstructingEinsum(h, operands, _parse_einsum_input(h, subscripts, operands, ellipse_inds))

(***************************************************************************)
(* Masked flattening (loupe/core.py) and the optimizer's Blueprint         *)
(* (loupe/optimize.py).  A mask is a boolean buffer; np.asarray(mask,      *)
(* dtype=bool) is never None, so `self.mask is not None` always holds.     *)
(* optim is the Blueprint: fun, and params as records [p, start, stop] for *)
(* the pairs (p, slice(start, stop)).                                      *)
(***************************************************************************)
RECURSIVE Where(_, _)
\* the positions among 1..k at which the boolean sequence v is True, ascending
Where(v, k) ==
    IF k = 0 THEN <<>>
    ELSE IF v[k] THEN Append(Where(v, k - 1), k)
    ELSE Where(v, k - 1)

\* ~mask
np_invert(mask) == [mask EXCEPT !.v = [i \in 1..Len(mask.v) |-> ~mask.v[i]]]

\* buf[index] for a boolean index and a buffer of shape `shape`: the shape of
\* the result and the positions of buf it takes, in order.  A rank-0 index adds
\* a leading axis of length 1 (True) or 0 (False); an index of the buffer's
\* shape gives the one-dimensional sequence of the elements at True.
BoolIndex(shape, index) ==
    CASE index.shape = <<>> /\ index.v[1] ->
             [shape |-> <<1>> \o shape, pos |-> [i \in 1..Size(shape) |-> i]]
      [] index.shape = <<>> /\ ~index.v[1] ->
             [shape |-> <<0>> \o shape, pos |-> <<>>]
      [] index.shape # <<>> /\ index.shape = shape ->
             [shape |-> <<Len(Where(index.v, Size(shape)))>>, pos |-> Where(index.v, Size(shape))]

\* buf[index] taken at the positions of a boolean index
Taken(buf, at) == Mk(buf.dt, at.shape, [j \in 1..Len(at.pos) |-> buf.v[at.pos[j]]])

\* ndarray.flatten(): one dimension, row-major
np_flatten(buf) == Mk(buf.dt, <<Size(buf.shape)>>, buf.v)

\* a flatten that ignores apply_mask
flatten_mutant_all(a, apply_mask) == np_flatten(a.data)

\* array.flatten(apply_mask): self._data[~self.mask] if apply_mask, else
\* self._data.flatten()
flatten(a, apply_mask) ==
    IF apply_mask THEN Taken(a.data, BoolIndex(a.data.shape, np_invert(a.mask)))
    ELSE np_flatten(a.data)

\* array.grad_flatten(apply_mask): the same on self._grad
grad_flatten(a, apply_mask) ==
    IF apply_mask THEN Taken(a.grad, BoolIndex(a.grad.shape, np_invert(a.mask)))
    ELSE np_flatten(a.grad)

RECURSIVE StripOnes(_)
\* an assignment into a one-dimensional destination drops the leading axes of
\* length 1 of a source of higher rank
StripOnes(shape) ==
    IF Len(shape) > 1 /\ shape[1] = 1 THEN StripOnes(Tail(shape)) ELSE shape

\* x[start:stop] = src fails unless src, without such axes, has one dimension of
\* the length of the slice, or one element
SliceAssignError(length, shape) ==
    IF StripOnes(shape) = <<length>> \/ StripOnes(shape) \in {<<>>, <<1>>} THEN "" ELSE "ValueError"

\* self._data[index] = value for a boolean index and a one-dimensional value:
\* value is broadcast to the shape of self._data[index], so its length must be
\* the last dimension of that shape, or 1
BoolAssignError(at, value) ==
    IF value.shape[1] = at.shape[Len(at.shape)] \/ value.shape[1] = 1 THEN "" ELSE "ValueError"

\* the data after self._data[index] = value at the positions of the index
BoolAssigned(data, at, value) ==
    [data EXCEPT !.v = [i \in 1..Len(data.v) |->
        IF \E j \in 1..Len(at.pos) : at.pos[j] = i
        THEN value.v[(((CHOOSE j \in 1..Len(at.pos) : at.pos[j] = i) - 1) % value.shape[1]) + 1]
        ELSE data.v[i]]]

\* array.__setitem__(index, value) for a boolean index: value is converted to
\* the data's dtype and written in place; the array afterwards and the exception
array_setitem_at(a, at, value) ==
    IF BoolAssignError(at, value) # "" THEN [a |-> a, err |-> "ValueError"]
    ELSE [a |-> [a EXCEPT !.data = BoolAssigned(a.data, at, np_astype(value, a.data.dt))],
          err |-> ""]

array_setitem_bool(a, index, value) == array_setitem_at(a, BoolIndex(a.data.shape, index), value)

RECURSIVE _dump_arrays(_, _, _)
RECURSIVE DumpInputs(_, _, _, _)
\* _dump_arrays(node, out): the inputs of a Function node in order, recursively;
\* anything else is appended unless it is in out already
_dump_arrays(h, node, out) ==
    IF node # Raw /\ ~IsArray(h, node) THEN DumpInputs(h, h[node].inputs, Len(h[node].inputs), out)
    ELSE IF In(out, node) THEN out
    ELSE Append(out, node)

\* for n in node.inputs: _dump_arrays(n, out), over inputs[1..k]
DumpInputs(h, inputs, k, out) ==
    IF k = 0 THEN out ELSE _dump_arrays(h, inputs[k], DumpInputs(h, inputs, k - 1, out))

\* arr.requires_grad = (arr in params), after the arrays before it (outcome b);
\* a raw input has no such attribute to set
MarkNext(b, arr, params) ==
    IF b.err # "" THEN b
    ELSE IF arr = Raw THEN [b EXCEPT !.err = "AttributeError"]
    ELSE [b EXCEPT !.h[arr].rg = In(params, arr)]

RECURSIVE MarkArrays(_, _, _, _)
MarkArrays(h, arrs, params, k) ==
    IF k = 0 THEN [h |-> h, err |-> ""]
    ELSE MarkNext(MarkArrays(h, arrs, params, k - 1), arrs[k], params)

\* a marking that sets the flag of the parameters and leaves every other flag
_mark_params_mutant_keep(h, fun, params) ==
    [h |-> [n \in 1..Len(h) |-> IF In(_dump_arrays(h, fun, <<>>), n) /\ In(params, n)
                                 THEN [h[n] EXCEPT !.rg = TRUE] ELSE h[n]],
     err |-> ""]

\* for arr in arrs: arr.requires_grad = (arr in params)
MarkAll(h, arrs, params) == MarkArrays(h, arrs, params, Len(arrs))

\* _mark_params_for_optimization(fun, params)
_mark_params_for_optimization(h, fun, params) == MarkAll(h, _dump_arrays(h, fun, <<>>), params)

\* the pair (p, slice(index, index + size)) after the pairs before it
ParamNext(before, p, size) ==
    Append(before, [p |-> p,
                    start |-> IF before = <<>> THEN 0 ELSE before[Len(before)].stop,
                    stop |-> (IF before = <<>> THEN 0 ELSE before[Len(before)].stop) + size])

RECURSIVE Blueprint_params(_, _, _)
\* self.params for params[1..k]: size = p.flatten(apply_mask=True).size
Blueprint_params(h, params, k) ==
    IF k = 0 THEN <<>>
    ELSE ParamNext(Blueprint_params(h, params, k - 1), params[k],
                   Size(flatten(h[params[k]], TRUE).shape))

\* Blueprint.__init__(fun, params) after the marking had outcome m
Blueprint_built(m, fun, params) ==
    IF m.err # "" THEN [h |-> m.h, optim |-> NoBlueprint, err |-> m.err]
    ELSE [h |-> m.h,
          optim |-> [fun |-> fun, params |-> Blueprint_params(m.h, params, Len(params))],
          err |-> ""]

\* Blueprint(fun, params)
Blueprint_init(h, fun, params) ==
    Blueprint_built(_mark_params_for_optimization(h, fun, params), fun, params)

\* the number of elements of the vector x: self.params[-1][1].stop
Blueprint_stop(o) == o.params[Len(o.params)].stop

\* x[param[1]] = flat into the vector so far (outcome b): the elements are
\* converted to float64
Gathered(b, param, flat) ==
    IF b.err # "" THEN b
    ELSE IF SliceAssignError(param.stop - param.start, flat.shape) # ""
    THEN [b EXCEPT !.err = "ValueError"]
    ELSE [b EXCEPT !.v = @ \o [j \in 1..(param.stop - param.start) |->
                                 <<flat.v[((j - 1) % Len(flat.v)) + 1][1], 0>>]]

RECURSIVE GatherData(_, _, _)
\* Blueprint.x: the slices of params[1..k] filled from flatten(apply_mask=True)
GatherData(h, o, k) ==
    IF k = 0 THEN [v |-> <<>>, err |-> ""]
    ELSE Gathered(GatherData(h, o, k - 1), o.params[k], flatten(h[o.params[k].p], TRUE))

RECURSIVE GatherGrad(_, _, _)
\* the same from grad_flatten(apply_mask=True)
GatherGrad(h, o, k) ==
    IF k = 0 THEN [v |-> <<>>, err |-> ""]
    ELSE Gathered(GatherGrad(h, o, k - 1), o.params[k], grad_flatten(h[o.params[k].p], TRUE))

\* the vector an outcome of gathering returns
Vector(b) ==
    [val |-> IF b.err # "" THEN NoBuf ELSE Mk("float64", <<Len(b.v)>>, b.v), err |-> b.err]

\* Blueprint.x (getter)
Blueprint_x(h, o) == Vector(GatherData(h, o, Len(o.params)))

\* value[param[1]]
np_slice(value, start, stop) ==
    Mk(value.dt, <<stop - start>>, [j \in 1..(stop - start) |-> value.v[start + j]])

\* the heap after param[0][~param[0].mask] = value with outcome r on leaf p
Scattered(b, p, r) ==
    IF r.err # "" THEN [b EXCEPT !.err = r.err]
    ELSE [b EXCEPT !.h = WrittenThrough([b.h EXCEPT ![p] = r.a], p)]

\* one step of the setter after the params before it (outcome b)
ScatterNext(b, param, value) ==
    IF b.err # "" THEN b
    ELSE Scattered(b, param.p,
                   array_setitem_bool(b.h[param.p], np_invert(b.h[param.p].mask),
                                      np_slice(value, param.start, param.stop)))

RECURSIVE Scatter(_, _, _, _)
Scatter(h, o, value, k) ==
    IF k = 0 THEN [h |-> h, err |-> ""]
    ELSE ScatterNext(Scatter(h, o, value, k - 1), o.params[k], value)

\* Blueprint.x = value (setter): every param takes the mask branch
Blueprint_set_x(h, o, value) == Scatter(h, o, value, Len(o.params))

\* if not np.all(x == self.x): self.x = x, after reading self.x with outcome cur
UpdatedFrom(h, o, x, cur) ==
    IF cur.err # "" THEN [h |-> h, err |-> cur.err]
    ELSE IF cur.val.v = x.v THEN [h |-> h, err |-> ""]
    ELSE Blueprint_set_x(h, o, x)

Blueprint_update(h, o, x) == UpdatedFrom(h, o, x, Blueprint_x(h, o))

\* return self.fun.getdata(), after the update had outcome u
CostFrom(o, u) ==
    IF u.err # "" THEN [h |-> u.h, val |-> NoBuf, err |-> u.err]
    ELSE getdata(ResetCalls(u.h), o.fun)

\* Blueprint.cost(x)
Blueprint_cost(h, o, x) == CostFrom(o, Blueprint_update(h, o, x))

\* arr.zero_grad() after the arrays before it (outcome b)
ZeroNext(b, arr) ==
    IF b.err # "" THEN b
    ELSE IF arr = Raw THEN [b EXCEPT !.err = "AttributeError"]
    ELSE [b EXCEPT !.h[arr] = zero_grad(@)]

RECURSIVE ZeroArrays(_, _, _)
ZeroArrays(h, arrs, k) ==
    IF k = 0 THEN [h |-> h, err |-> ""]
    ELSE ZeroNext(ZeroArrays(h, arrs, k - 1), arrs[k])

\* for arr in arrs: arr.zero_grad()
ZeroAll(h, arrs) == ZeroArrays(h, arrs, Len(arrs))

\* Blueprint.zero_grad(): for arr in _dump_arrays(self.fun): arr.zero_grad()
Blueprint_zero_grad(h, o) == ZeroAll(h, _dump_arrays(h, o.fun, <<>>))

\* np.array(1.)
One == [dt |-> "float64", shape |-> <<>>, v |-> <<<<1, 0>>>>]

\* the outcome of grad() on heap h that returns the vector of outcome b
Returning(h, b) == [h |-> h, val |-> b.val, err |-> b.err]

\* the vector grad() returns after the backward pass had outcome r
GradGathered(o, r) ==
    IF r.err # "" THEN [h |-> r.h, val |-> NoBuf, err |-> r.err]
    ELSE Returning(r.h, Vector(GatherGrad(r.h, o, Len(o.params))))

\* self.fun.backward(np.array(1.)) after zero_grad had outcome z
GradBackward(o, z) ==
    IF z.err # "" THEN [h |-> z.h, val |-> NoBuf, err |-> z.err]
    ELSE GradGathered(o, backward(z.h, o.fun, One))

\* self.zero_grad() and the rest of grad(), after the update had outcome u
GradFrom(o, u) ==
    IF u.err # "" THEN [h |-> u.h, val |-> NoBuf, err |-> u.err]
    ELSE GradBackward(o, Blueprint_zero_grad(u.h, o))

\* Blueprint.grad(x)
Blueprint_grad(h, o, x) == GradFrom(o, Blueprint_update(h, o, x))

(***************************************************************************)
(* The operations a caller performs.  last records the most recent one:    *)
(* its name, the object it was called on, the operand or gradient given,   *)
(* what it returned (ret: a buffer, ref: an object, flag: a requires_grad  *)
(* value), the exception it raised, the heap size before it and the stored *)
(* output (_data) and gradient buffer the object had before it.            *)
(***************************************************************************)
Event(op, node, arg, g, ret, ref, flag, err) ==
    [op |-> op, node |-> node, arg |-> arg, g |-> g, ret |-> ret, ref |-> ref,
     flag |-> flag, err |-> err, n0 |-> Len(heap),
     old |-> IF node \in Objects THEN heap[node].data ELSE NoBuf,
     oldg |-> IF node \in Objects THEN heap[node].grad ELSE NoBuf]

NoArg == PyObject("NoneType", NoBuf)

\* a[index] = value
SetItem ==
    \E n \in Leaves, index \in 0..VecLen, value \in Values :
        /\ index <= (IF heap[n].data.shape = <<>> THEN 0 ELSE Size(heap[n].data.shape))
        /\ heap' = WrittenThrough([heap EXCEPT ![n] = array_setitem(@, index, value)], n)
        /\ last' = Event("setitem", n, NoArg, NoBuf, NoBuf, Raw, "", "")
        /\ UNCHANGED <<nbwd, optim>>

\* a.zero_grad()
ZeroGrad ==
    \E n \in Leaves :
        /\ heap' = [heap EXCEPT ![n] = zero_grad(@)]
        /\ last' = Event("zero_grad", n, NoArg, NoBuf, NoBuf, Raw, "", "")
        /\ UNCHANGED <<nbwd, optim>>

\* a.requires_grad = value
SetRequiresGrad ==
    \E n \in Leaves, value \in BOOLEAN :
        /\ heap' = [heap EXCEPT ![n].rg = value]
        /\ last' = Event("set_requires_grad", n, NoArg, NoBuf, NoBuf, Raw, "", "")
        /\ UNCHANGED <<nbwd, optim>>

\* x.backward(g) called by the user on any object, with a seed from G, at most
\* B times
Backward(G, B) ==
    \E n \in Objects, g \in G :
        /\ nbwd < B
        /\ LET r == backward(heap, n, g)
           IN /\ heap' = r.h
              /\ last' = Event("backward", n, NoArg, g, NoBuf, Raw, "", r.err)
        /\ nbwd' = nbwd + 1
        /\ UNCHANGED optim

\* x.data read by the user on any object: one evaluation
ReadData ==
    \E n \in Objects :
        /\ LET r == getdata(ResetCalls(heap), n)
           IN /\ heap' = r.h
              /\ last' = Event("data", n, NoArg, NoBuf, r.val, Raw, "", r.err)
        /\ UNCHANGED <<nbwd, optim>>

\* x.requires_grad read by the user on any object
ReadRequiresGrad ==
    \E n \in Objects :
        /\ LET q == requires_grad(heap, n)
           IN last' = Event("requires_grad", n, NoArg, NoBuf, NoBuf, Raw,
                            IF q = "error" THEN "" ELSE q,
                            IF q = "error" THEN "AttributeError" ELSE "")
        /\ UNCHANGED <<heap, nbwd, optim>>

\* loupe.asarray(a)
AsArray(A) ==
    \E a \in {NodeRef(n) : n \in Objects} \cup A :
        /\ Len(heap) + (IF a.ty \in ArrayLike THEN 1 ELSE 0) <= MaxNodes
        /\ LET r == asarray(heap, a)
           IN /\ heap' = r.h
              /\ last' = Event("asarray", Raw, a, NoBuf, NoBuf, r.ref, "", r.err)
        /\ UNCHANGED <<nbwd, optim>>

\* the objects a constructor call allocates: the node and a leaf for every raw
\* operand that asarray accepts
Allocates(operands) == 1 + Cardinality({i \in 1..Len(operands) : operands[i].ty \in ArrayLike})

Constructed(cls, operands, e) ==
    /\ Len(heap) + Allocates(operands) <= MaxNodes
    /\ LET r == construct(ResetCalls(heap), cls, operands, e)
       IN /\ heap' = r.h
          /\ last' = Event("construct", r.ref, operands[1], NoBuf, NoBuf, r.ref, "", r.err)
    /\ UNCHANGED <<nbwd, optim>>

\* add(x1, x2), subtract(x1, x2), multiply(x1, x2), tensordot(x1, x2, axes=1)
ConstructBinary(A) ==
    \E cls \in Binary, x1 \in {NodeRef(n) : n \in Objects} \cup A, x2 \in {NodeRef(n) : n \in Objects} \cup A :
        Constructed(cls, <<x1, x2>>, 0)

\* sum(x), power(x, e)
ConstructUnary(A) ==
    \E x \in {NodeRef(n) : n \in Objects} \cup A :
        \E k \in {<<"sum", 0>>} \cup {<<"power", e>> : e \in Exponents} :
            Constructed(k[1], <<x>>, k[2])

(***************************************************************************)
(* Specifications.                                                         *)
(***************************************************************************)
Start == [op |-> "init", node |-> Raw, arg |-> NoArg, g |-> NoBuf, ret |-> NoBuf,
          ref |-> Raw, flag |-> "", err |-> "", n0 |-> 0, old |-> NoBuf, oldg |-> NoBuf]

\* SpecLeaf: one leaf of any dtype, shape and flag, and the operations on a leaf
InitLeaf ==
    /\ \E dt \in DTypes, s \in Shapes, c \in Values, rg \in BOOLEAN :
           heap = <<array_init(Ramp(dt, s, c), rg)>>
    /\ last = Start
    /\ nbwd = 0
    /\ optim = NoBlueprint

NextLeaf ==
    \/ SetItem
    \/ ZeroGrad
    \/ SetRequiresGrad
    \/ Backward(Seeds, MaxLeafBwd)
    \/ ReadData

SpecLeaf == InitLeaf /\ [][NextLeaf]_vars

\* Spec: one leaf x of any dtype, and graphs built over it
GraphSeeds == {Seed("float64", <<>>, 1), Seed("complex128", <<VecLen>>, 1)}

GraphOperands == {PyObject("float", Ramp("float64", <<>>, 2)),
                  PyObject("ndarray", Ramp("float64", <<VecLen>>, 1)),
                  PyObject("str", NoBuf)}

Init ==
    /\ \E dt \in DTypes, rx \in BOOLEAN : heap = <<array_init(Ramp(dt, <<VecLen>>, 1), rx)>>
    /\ last = Start
    /\ nbwd = 0
    /\ optim = NoBlueprint

Next ==
    \/ ZeroGrad
    \/ SetRequiresGrad
    \/ Backward(GraphSeeds, MaxBwd)
    \/ ReadRequiresGrad
    \/ ConstructBinary(GraphOperands)
    \/ ConstructUnary(GraphOperands)

Spec == Init /\ [][Next]_vars

\* SpecEval, SpecCoerce: graphs built over one float leaf x
InitFloat ==
    /\ \E rx \in BOOLEAN : heap = <<array_init(Ramp("float64", <<VecLen>>, 1), rx)>>
    /\ last = Start
    /\ nbwd = 0
    /\ optim = NoBlueprint

NextEval ==
    \/ SetItem
    \/ ReadData
    \/ ConstructBinary(GraphOperands)
    \/ ConstructUnary(GraphOperands)

SpecEval == InitFloat /\ [][NextEval]_vars

NextCoerce ==
    \/ AsArray(PyObjects)
    \/ ConstructBinary(GraphOperands)
    \/ ConstructUnary(GraphOperands)

SpecCoerce == InitFloat /\ [][NextCoerce]_vars

\* SpecBroadcast: two leaves a (object 1) and b (object 2) of broadcast-compatible
\* shapes, the elementwise operators over them, and backward with a gradient of
\* the output's shape
BroadcastShapes ==
    {<<>>, <<1>>, <<VecLen>>, <<1, 1>>, <<1, VecLen>>, <<NRows, 1>>, <<NRows, VecLen>>}

Ones(shape) == Mk("float64", shape, [i \in 1..Size(shape) |-> <<1, 0>>])

OutputSeeds(shape) == {Ones(shape), Ramp("float64", shape, 1), Seed("complex128", shape, 1)}

\* gradients for a slice node, multiples of 1/Frac among them
SliceSeeds(shape) ==
    {Mk("float64", shape, [i \in 1..Size(shape) |-> <<c + i - 1, 0>>]) : c \in {1, Frac}}
    \cup {Mk("int64", shape, [i \in 1..Size(shape) |-> <<Frac * i, 0>>]),
          Mk("complex128", shape, [i \in 1..Size(shape) |-> <<Frac * i, Frac>>])}

\* the gradients of a family ("multiples": whole multiples of 4)
SeedsOf(family, shape) ==
    IF family = "slice" THEN SliceSeeds(shape)
    ELSE IF family = "multiples" THEN {np_scale(4, g) : g \in OutputSeeds(shape)}
    ELSE OutputSeeds(shape)

InitBroadcast ==
    /\ \E sa \in BroadcastShapes, sb \in BroadcastShapes,
          da \in {"float64", "complex128"}, db \in {"float64", "complex128"},
          ra \in BOOLEAN, rb \in BOOLEAN :
           /\ BCompatible(sa, sb)
           /\ heap = <<array_init(Seed(da, sa, 1), ra), array_init(Seed(db, sb, 2), rb)>>
    /\ last = Start
    /\ nbwd = 0
    /\ optim = NoBlueprint

\* add(a, b), subtract(a, b), multiply(a, b)
ConstructElementwise ==
    \E cls \in {"add", "subtract", "multiply"} :
        Constructed(cls, <<NodeRef(1), NodeRef(2)>>, 0)

\* f.backward(g) on a Function node with a gradient of the shape of its output,
\* from the family of gradients named
BackwardOutput(family) ==
    \E n \in Functions :
        \E g \in SeedsOf(family, heap[n].data.shape) :
            /\ nbwd < MaxBwd
            /\ LET r == backward(heap, n, g)
               IN /\ heap' = r.h
                  /\ last' = Event("backward", n, NoArg, g, NoBuf, Raw, "", r.err)
            /\ nbwd' = nbwd + 1
            /\ UNCHANGED optim

NextBroadcast ==
    \/ ConstructElementwise
    \/ BackwardOutput("output")

SpecBroadcast == InitBroadcast /\ [][NextBroadcast]_vars

\* SpecPower: a float base leaf x (object 1), a leaf e (object 2) that may serve
\* as exponent, and power nodes over x with a Python int, a constant ndarray or
\* the leaf e as exponent
ExponentArrays(shape) ==
    {Mk(dt, s, [i \in 1..Size(s) |-> <<k, 0>>]) :
         dt \in {"int64", "float64"}, s \in {<<>>, shape}, k \in {2, 3}}

InitPower ==
    /\ \E s \in {<<>>, <<VecLen>>}, c \in Values, k \in {2, 3}, rx \in BOOLEAN, re \in BOOLEAN :
           heap = <<array_init(Ramp("float64", s, c), rx),
                    array_init(Mk("float64", s, [i \in 1..Size(s) |-> <<k, 0>>]), re)>>
    /\ last = Start
    /\ nbwd = 0
    /\ optim = NoBlueprint

ConstructPower ==
    \/ \E e \in Exponents : Constructed("power", <<NodeRef(1)>>, e)
    \/ \E x2 \in {PyObject("ndarray", e) : e \in ExponentArrays(heap[1].data.shape)} \cup {NodeRef(2)} :
           /\ Len(heap) + 1 <= MaxNodes
           /\ LET r == construct_power(ResetCalls(heap), NodeRef(1), x2)
              IN /\ heap' = r.h
                 /\ last' = Event("construct", r.ref, x2, NoBuf, NoBuf, r.ref, "", r.err)
           /\ UNCHANGED <<nbwd, optim>>

NextPower ==
    \/ ConstructPower
    \/ BackwardOutput("output")

SpecPower == InitPower /\ [][NextPower]_vars

\* SpecSlice: a one-dimensional leaf x (object 1) of any dtype, slice nodes over
\* it for basic slices lo:hi, integer indexes and index lists, and backward with
\* gradients that are multiples of 1/Frac
IndexExpressions(n) ==
    {[pos |-> [j \in 1..(hi - lo) |-> lo + j], shape |-> <<hi - lo>>] : lo \in 0..n, hi \in 0..n}
    \cup {[pos |-> <<k>>, shape |-> <<>>] : k \in 1..n}
    \cup {[pos |-> <<k1, k2>>, shape |-> <<2>>] : k1 \in 1..n, k2 \in 1..n}

InitSlice ==
    /\ \E dt \in DTypes, rx \in BOOLEAN :
           heap = <<array_init(Mk(dt, <<VecLen>>, [i \in 1..VecLen |-> <<Frac * i, 0>>]), rx)>>
    /\ last = Start
    /\ nbwd = 0
    /\ optim = NoBlueprint

ConstructSlice ==
    \E slc \in IndexExpressions(VecLen) :
        /\ slc.shape # <<>> => slc.shape[1] >= 0
        /\ Len(heap) + 1 <= MaxNodes
        /\ LET r == construct_slice(ResetCalls(heap), NodeRef(1), slc)
           IN /\ heap' = r.h
              /\ last' = Event("construct", r.ref, NodeRef(1), NoBuf, NoBuf, r.ref, "", r.err)
        /\ UNCHANGED <<nbwd, optim>>

NextSlice ==
    \/ ConstructSlice
    \/ BackwardOutput("slice")

SpecSlice == InitSlice /\ [][NextSlice]_vars

\* The einsum constructor, called once on a string and operands.
\* The strings are built from terms: label terms, terms with an ellipsis,
\* terms with a misplaced dot, an invalid character or a space; joined by
\* commas, alone or followed by an arrow (or a malformed one) and an output term
LabelTerms ==
    {<<>>, <<"i">>, <<"j">>, <<"i", "j">>, <<"j", "i">>, <<"i", "i">>, <<"j", "A">>}

EllipsisTerms == {<<".", ".", ".">>, <<".", ".", ".", "i">>}

BadTerms == {<<".", "i", ".", ".">>, <<"i", "?">>, <<"i", " ">>}

InputStrings ==
    {Join(ts, ",") : ts \in UNION {[1..n -> LabelTerms \cup EllipsisTerms \cup BadTerms] :
                                      n \in 1..MaxTerms}}

OutputTerms ==
    {<<>>, <<"i">>, <<"j">>, <<"i", "j">>, <<"j", "i">>, <<".", ".", ".">>, <<".", ".">>}

Subscripts ==
    InputStrings
    \cup {i \o <<"-", ">">> \o o : i \in InputStrings, o \in OutputTerms}
    \cup {i \o a \o <<"i">> : i \in InputStrings, a \in {<<"-">>, <<">">>, <<">", "-">>}}
    \cup {i \o <<"-", ">", "i", "-", ">">> : i \in InputStrings}

\* the operands of a call: ndarrays of rank 0, 1 and 2 and the leaf (object 1)
\* in the first place, ndarrays of rank 1 and 2 after it
EinsumOperands(k) ==
    {PyObject("ndarray", Ramp("float64", s, 1)) : s \in {<<VecLen>>, <<VecLen, VecLen>>}}
    \cup (IF k = 1 THEN {PyObject("ndarray", Ramp("float64", <<>>, 1)), NodeRef(1)} ELSE {})

OperandLists ==
    UNION {{ops \in [1..n -> EinsumOperands(1)] : \A k \in 2..n : ops[k] \in EinsumOperands(k)} :
              n \in 0..MaxTerms}

\* the orders in which the parser may find the unused letters: the last two
\* letters of ellipse_inds, which are all it reads for operands of rank <= 2
EllipseInds(subscripts) ==
    IF ~Has(subscripts, ".") THEN {<<>>}
    ELSE LET unused == {c \in {einsum_symbols[k] : k \in 1..Len(einsum_symbols)} :
                           ~Has(subscripts, c)}
         IN {<<x, y>> : x \in unused, y \in unused} \ {<<x, x>> : x \in unused}

Call(subscripts, operands) ==
    [ty |-> "str", id |-> Raw, val |-> subscripts, operands |-> operands]

InitParse ==
    /\ heap = <<array_init(Ramp("float64", <<VecLen>>, 1), TRUE)>>
    /\ last = Start
    /\ nbwd = 0
    /\ optim = NoBlueprint

\* einsum(subscripts, *operands)
ConstructEinsum ==
    /\ last.op = "init"
    /\ \E subscripts \in Subscripts, operands \in OperandLists :
        \E ellipse_inds \in EllipseInds(subscripts) :
            /\ LET r == construct_einsum(ResetCalls(heap), subscripts, operands, ellipse_inds)
               IN /\ heap' = r.h
                  /\ last' = Event("construct", r.ref, Call(subscripts, operands), NoBuf,
                                   r.parsed, r.ref, r.stage, r.err)
            /\ UNCHANGED <<nbwd, optim>>

NextParse == ConstructEinsum

SpecParse == InitParse /\ [][NextParse]_vars

\* einsum nodes over two leaves a (object 1) and b (object 2) of rank 1 or 2,
\* and their backward pass.  The calls take a alone, or a and b.
EinsumCalls ==
    {<<"i", "-", ">">>, <<"i", "j", "-", ">">>, <<"i", "j", "-", ">", "j">>,
     <<"i", "j", "-", ">", "j", "i">>, <<"i", "i", "-", ">", "i">>,
     <<"i", ",", "i", "-", ">", "i">>, <<"i", ",", "i">>,
     <<"i", "j", ",", "i", "j", "-", ">", "i", "j">>,
     <<"i", "j", ",", "j", "z", "-", ">", "i", "z">>, <<"i", "j", ",", "j", "z">>,
     <<"i", ",", "j", "-", ">", "i", "j">>, <<"i", "j", ",", "i", "-", ">", "j">>,
     <<"i", "j", ",", "j">>}

InitEinsum ==
    \E da, db \in {"float64", "complex128"}, ra, rb \in BOOLEAN :
    \E sa, sb \in {<<VecLen>>, <<VecLen, VecLen>>} :
        /\ heap = <<array_init(Seed(da, sa, 1), ra), array_init(Seed(db, sb, 2), rb)>>
        /\ last = Start
        /\ nbwd = 0
        /\ optim = NoBlueprint

\* einsum(subscripts, a) and einsum(subscripts, a, b)
ConstructEinsumNode ==
    /\ Len(heap) = 2
    /\ \E subscripts \in EinsumCalls :
        /\ LET operands == IF Has(subscripts, ",") THEN <<NodeRef(1), NodeRef(2)>>
                           ELSE <<NodeRef(1)>>
               r == construct_einsum(ResetCalls(heap), subscripts, operands, <<>>)
           IN /\ heap' = r.h
              /\ last' = Event("construct", r.ref, Call(subscripts, operands), NoBuf,
                               r.parsed, r.ref, r.stage, r.err)
        /\ UNCHANGED <<nbwd, optim>>

NextEinsum ==
    \/ ConstructEinsumNode
    \/ BackwardOutput("output")

SpecEinsum == InitEinsum /\ [][NextEinsum]_vars

\* tensordot nodes over two leaves a (object 1) and b (object 2) of rank 0 to
\* 3, constructed with an integer or a pair of axis lists, read again, and
\* given a gradient
TensorShapes == {<<>>, <<VecLen>>, <<NRows, VecLen>>, <<VecLen, NRows>>}

\* the shapes of a and b: both of rank 0 to 2, or one of rank 3 with a vector or
\* a matrix
ShapePairs ==
    (TensorShapes \X TensorShapes)
        \cup {<<<<VecLen, NRows, VecLen>>, s>> : s \in {<<VecLen>>, <<NRows, VecLen>>}}
        \cup {<<s, <<VecLen, NRows, VecLen>>>> : s \in {<<VecLen>>, <<NRows, VecLen>>}}

\* one axis counted from the front or from the end, and lists of two different
\* axes counted from the front
AxisLists ==
    {<<>>} \cup {<<x>> : x \in -1..2} \cup {l \in {<<x, y>> : x, y \in 0..2} : l[1] # l[2]}

\* requires_grad of a and of b: at least one of them requires a gradient
GradFlags == {<<TRUE, TRUE>>, <<TRUE, FALSE>>, <<FALSE, TRUE>>}

AxesSpecs == {IntAxes(n) : n \in 0..3} \cup {PairAxes(x, y) : x, y \in AxisLists}

\* two entries of an axis list name the same axis of an operand of rank n
Repeats(list, n) ==
    \E i, j \in 1..Len(list) : i # j /\ Norm(list[i], n) = Norm(list[j], n)

InitTensordot ==
    \E s \in ShapePairs, rg \in GradFlags :
        /\ heap = <<array_init(Ramp("float64", s[1], 1), rg[1]),
                    array_init(Ramp("float64", s[2], 2), rg[2])>>
        /\ last = Start
        /\ nbwd = 0
        /\ optim = NoBlueprint

\* tensordot(a, b, axes), the first call of a run, with lists that name no
\* axis twice
ConstructTensordot ==
    /\ last.op = "init"
    /\ \E axes \in {x \in AxesSpecs : /\ ~Repeats(x.a, Len(heap[1].data.shape))
                                       /\ ~Repeats(x.b, Len(heap[2].data.shape))} :
           LET r == construct_tensordot(ResetCalls(heap), NodeRef(1), NodeRef(2), axes)
           IN /\ heap' = r.h
              /\ last' = Event("construct", r.ref, [ty |-> "axes", id |-> Raw, val |-> axes],
                               NoBuf, NoBuf, r.ref, "", r.err)
    /\ UNCHANGED <<nbwd, optim>>

NextTensordot ==
    \/ ConstructTensordot
    \/ ReadData
    \/ BackwardOutput("output")

SpecTensordot == InitTensordot /\ [][NextTensordot]_vars

\* dft2 nodes over an input leaf x (object 1) and a leaf alpha (object 2):
\* x holds whole multiples of 4, alpha the numerators of multiples of 1/4
DftShapes == {<<VecLen>>, <<VecLen, VecLen>>, <<NRows, VecLen>>, <<VecLen, VecLen, VecLen>>}

Alphas ==
    {Mk("float64", <<2>>, <<<<a[1], 0>>, <<a[2], 0>>>>) :
         a \in {<<1, 1>>, <<1, 4>>, <<4, 4>>, <<-1, 1>>}}
    \cup {Mk("float64", <<>>, <<<<2, 0>>>>), Ramp("float64", <<3>>, 1)}

InitDft ==
    \E s \in DftShapes, dt \in {"float64", "complex128"}, alpha \in Alphas, rx, ra \in BOOLEAN :
        /\ heap = <<array_init(np_scale(4, Seed(dt, s, 1)), rx), array_init(alpha, ra)>>
        /\ last = Start
        /\ nbwd = 0
        /\ optim = NoBlueprint

\* dft2(x, alpha, shape=shape, unitary=unitary), the first call of a run
ConstructDft2 ==
    /\ last.op = "init"
    /\ \E shape \in {<<>>, <<NRows, VecLen>>}, unitary \in BOOLEAN :
           LET r == construct_dft2(ResetCalls(heap), NodeRef(1), NodeRef(2), shape, unitary)
           IN /\ heap' = r.h
              /\ last' = Event("construct", r.ref, NodeRef(1), NoBuf, NoBuf, r.ref, "", r.err)
    /\ UNCHANGED <<nbwd, optim>>

NextDft ==
    \/ ConstructDft2
    \/ ReadData
    \/ BackwardOutput("multiples")

SpecDft == InitDft /\ [][NextDft]_vars

\* sserror nodes over a model leaf (object 1) of shape (VecLen, VecLen) that
\* requires a gradient, with data of that shape and a mask of that shape or of
\* one row
CostShape == <<VecLen, VecLen>>

CostModels ==
    {Zeros("float64", CostShape), Ramp("float64", CostShape, 1),
     Mk("float64", CostShape, [i \in 1..Size(CostShape) |-> <<i % 2, 0>>])}

CostData == {Ramp("float64", CostShape, 0), Ramp("float64", CostShape, 1)}

CostMasks ==
    {NoMask}
    \cup {[shape |-> s, v |-> b] : s \in {CostShape}, b \in [1..Size(CostShape) -> BOOLEAN]}
    \cup {[shape |-> s, v |-> b] : s \in {<<VecLen>>}, b \in [1..VecLen -> BOOLEAN]}

InitCost ==
    \E g \in CostModels :
        /\ heap = <<array_init(g, TRUE)>>
        /\ last = Start
        /\ nbwd = 0
        /\ optim = NoBlueprint

\* sserror(model, data, mask, gain_bias_invariant), the first call of a run
ConstructSserror ==
    /\ last.op = "init"
    /\ \E data \in CostData, mask \in CostMasks, gain_bias_invariant \in BOOLEAN :
           LET r == construct_sserror(ResetCalls(heap), NodeRef(1), data, mask, gain_bias_invariant)
           IN /\ heap' = r.h
              /\ last' = Event("construct", r.ref,
                               [ty |-> "sserror", id |-> Raw,
                                val |-> [data |-> data, mask |-> mask,
                                         gain_bias_invariant |-> gain_bias_invariant]],
                               NoBuf, NoBuf, r.ref, "", r.err)
    /\ UNCHANGED <<nbwd, optim>>

\* model[index] = 0 or model[...] = 0, once after the node was built
SetModel ==
    /\ last.op = "construct"
    /\ last.err = ""
    /\ \E index \in 0..Size(CostShape) :
           /\ heap' = [heap EXCEPT ![1] = array_setitem(@, index, 0)]
           /\ last' = Event("setitem", 1, [ty |-> "index", id |-> index, val |-> NoBuf],
                            NoBuf, NoBuf, Raw, "", "")
    /\ UNCHANGED <<nbwd, optim>>

RECURSIVE LCM(_, _)
\* the least common multiple of the denominators of q[1..k]
LCM(q, k) ==
    IF k = 0 THEN 1 ELSE (LCM(q, k - 1) * q[k][2]) \div GCD(LCM(q, k - 1), q[k][2])

\* the gradients given to sserror node n: the multiples of the least number
\* that makes every element of the gradient it delivers whole
CostSeeds(n) ==
    {Mk("float64", <<>>,
        <<<<k * LCM(sserror_grad(heap[n].cache[1], heap[n].cache[2], Fractions(heap[n].f),
                                 heap[n].mask, Ones(<<>>)),
                    Size(CostShape)), 0>>>>) : k \in {1, 2}}

\* f.backward(g) on the sserror node
BackwardCost ==
    \E n \in Functions :
        /\ nbwd < MaxBwd
        /\ \E g \in CostSeeds(n) :
               LET r == backward(heap, n, g)
               IN /\ heap' = r.h
                  /\ last' = Event("backward", n, NoArg, g, NoBuf, Raw, "", r.err)
        /\ nbwd' = nbwd + 1
        /\ UNCHANGED optim

NextCost ==
    \/ ConstructSserror
    \/ SetModel
    \/ ReadData
    \/ BackwardCost

SpecCost == InitCost /\ [][NextCost]_vars

(***************************************************************************)
(* Reference semantics used by the properties: the value of a node as a    *)
(* function of the current leaves, and the number of paths between nodes.  *)
(***************************************************************************)
ValOf(node, vals) == Apply(node, vals, Operated(node, vals))

RECURSIVE Val(_, _)
Val(h, n) ==
    IF IsArray(h, n) THEN h[n].data
    ELSE ValOf(h[n], [i \in 1..Len(h[n].args) |-> Val(h, h[n].args[i])])

RECURSIVE SumPaths(_, _, _, _)
RECURSIVE NPaths(_, _, _)
SumPaths(h, r, n, i) ==
    IF i = 0 THEN 0 ELSE NPaths(h, h[r].args[i], n) + SumPaths(h, r, n, i - 1)

NPaths(h, r, n) ==
    IF r = n THEN 1
    ELSE IF IsArray(h, r) THEN 0
    ELSE SumPaths(h, r, n, Len(h[r].args))

LeafArgs(h, n) == {h[n].args[i] : i \in 1..Len(h[n].args)} \cap Leaves

\* the sum of the elements of g at the positions 1..q of the output that read
\* position p of an input of shape sa
RECURSIVE SumInto(_, _, _, _)
SumInto(g, sa, p, q) ==
    IF q = 0 THEN <<0, 0>>
    ELSE CAdd(IF Pos(sa, g.shape, q) = p THEN g.v[q] ELSE <<0, 0>>, SumInto(g, sa, p, q - 1))

\* what a leaf of dtype dt keeps of the elements v it is given: the real parts
\* when the leaf is float
Kept(dt, v) == IF dt = "float64" THEN [p \in 1..Len(v) |-> <<v[p][1], 0>>] ELSE v

\* g summed over the dimensions along which an input of shape sa was broadcast
Unbroadcast(g, sa) == [p \in 1..Size(sa) |-> SumInto(g, sa, p, Size(g.shape))]

(***************************************************************************)
(* Properties of the leaf's gradient buffer.                               *)
(***************************************************************************)

C2_EveryBackwardAdds ==
    (/\ last.op = "backward"
     /\ heap[last.node].rg
     /\ last.g.dt # "complex128"
     /\ last.g.shape = heap[last.node].data.shape)
    => /\ last.err = ""
       /\ heap[last.node].grad.v = np_add(last.oldg, last.g).v

\* C3: grad has the shape of data at every moment (after item assignment,
\* backward, zero_grad and reads of .data), and it is all zeros for as long as
\* no backward call has been made.
C3_GradShapeOfData ==
    \A n \in Leaves :
        /\ heap[n].grad.shape = heap[n].data.shape
        /\ Len(heap[n].grad.v) = Size(heap[n].data.shape)
        /\ nbwd = 0 => IsZero(heap[n].grad)

\* C3 witness: a backward call with a seed of another shape than the leaf has
\* returned normally and changed the grad, which still has the shape of data.
C3_Witness ==
    /\ last.op = "backward"
    /\ last.err = ""
    /\ last.g.shape # heap[last.node].data.shape
    /\ heap[last.node].grad # last.oldg
    /\ heap[last.node].grad.shape = heap[last.node].data.shape

\* C4: after zero_grad() the leaf's grad is all zeros with the shape of data,
\* whatever requires_grad is and whatever had been accumulated before.
C4_ZeroGradResets ==
    last.op = "zero_grad" =>
        /\ IsZero(heap[last.node].grad)
        /\ heap[last.node].grad.shape = heap[last.node].data.shape
        /\ Len(heap[last.node].grad.v) = Size(heap[last.node].data.shape)

\* C4 witness: zero_grad() has reset a non-zero grad on a leaf whose
\* requires_grad is False.
C4_Witness ==
    /\ last.op = "zero_grad"
    /\ ~heap[last.node].rg
    /\ ~IsZero(last.oldg)
    /\ IsZero(heap[last.node].grad)

\* C5 as stated: on a leaf with real-typed data (integer or floating) and
\* requires_grad True, backward(g) with a complex g of the leaf's shape raises
\* nothing and adds the real part of g to grad; it fails on integer data.
C5_ComplexGradOnRealData ==
    (/\ last.op = "backward"
     /\ heap[last.node].rg
     /\ heap[last.node].data.dt \in {"int64", "float64"}
     /\ last.g.dt = "complex128"
     /\ last.g.shape = heap[last.node].data.shape)
    => /\ last.err = ""
       /\ heap[last.node].grad.v = np_add(last.oldg, np_real(last.g)).v

(***************************************************************************)
(* Properties of Function nodes.                                           *)
(***************************************************************************)

\* C6 as stated: requires_grad of every Function node can be read and is the
\* OR of the requires_grad of its operands; it fails on a tensordot node built
\* from a raw operand.
C6_RequiresGradIsOr ==
    \A n \in Functions :
        requires_grad(heap, n) =
            IF \E i \in 1..Len(heap[n].args) : requires_grad(heap, heap[n].args[i]) = "true"
            THEN "true" ELSE "false"

\* C7: a constructor that returns has run forward() exactly once, stored its
\* output and cached the values of the operands; the cache of a node keeps the
\* operands' values, and backward never finds it empty.
C7_ConstructionRunsForward ==
    /\ (last.op = "construct" /\ last.err = "") =>
           /\ last.node \in Functions
           /\ heap[last.node].calls = 1
           /\ heap[last.node].data = Val(heap, last.node)
    /\ \A n \in Functions :
           heap[n].cache = [i \in 1..Len(heap[n].args) |-> Val(heap, heap[n].args[i])]
    /\ last.op = "backward" => last.err # "EmptyCache"

\* C7 witness: backward has been called on a Function node whose .data was
\* never read, it returned normally and delivered a gradient to a leaf.
C7_Witness ==
    /\ last.op = "backward"
    /\ last.err = ""
    /\ last.node \in Functions
    /\ heap[last.node].calls = 1
    /\ \E l \in Leaves : ~IsZero(heap[l].grad)

\* C8 as stated: during one read of .data, forward() of every node is invoked
\* at most once; it fails when a node is reachable along two paths.
C8_ForwardAtMostOnce ==
    last.op = "data" => \A n \in Functions : heap[n].calls <= 1

\* C8 amended: during one read of .data on a root, forward() of a Function
\* node is invoked once for every path from the root to the node.
C8_ForwardOncePerPath ==
    (last.op = "data" /\ last.err = "") =>
        \A n \in Functions : heap[n].calls = NPaths(heap, last.node, n)

\* C8 witness: a read has evaluated a node that is both operands of its
\* consumer, so forward() of that node ran twice.
C8_Witness ==
    /\ last.op = "data"
    /\ last.node \in Functions
    /\ \E n \in Functions : n # last.node /\ heap[n].calls = 2

\* C9: a read of .data returns (and stores) the value of the graph computed from
\* the leaves' current values, at any depth.
C9_DataReflectsLeaves ==
    (last.op = "data" /\ last.err = "") =>
        /\ last.ret = Val(heap, last.node)
        /\ heap[last.node].data = last.ret

\* C9 witness: a read on a node with a Function operand returned a value other
\* than the one stored before, after an item assignment to a leaf.
C9_Witness ==
    /\ last.op = "data"
    /\ last.node \in Functions
    /\ \E i \in 1..Len(heap[last.node].args) : heap[last.node].args[i] \in Functions
    /\ last.ret # last.old

(***************************************************************************)
(* Properties of asarray.                                                  *)
(***************************************************************************)

\* C10: asarray returns an Array or a Function node itself, wraps an int, float,
\* complex, list, tuple or ndarray into one new Array holding its value, and
\* raises TypeError for anything else without creating an object.
C10_AsArrayCoerces ==
    last.op = "asarray" =>
        CASE last.arg.ty = "node" ->
                 /\ last.err = ""
                 /\ last.ref = last.arg.id
                 /\ heap = [i \in 1..last.n0 |-> heap[i]]
          [] last.arg.ty \in {"int", "float", "complex", "list", "tuple", "ndarray"} ->
                 /\ last.err = ""
                 /\ Len(heap) = last.n0 + 1
                 /\ last.ref = Len(heap)
                 /\ IsArray(heap, last.ref)
                 /\ heap[last.ref].data.v = last.arg.val.v
                 /\ heap[last.ref].data.shape = last.arg.val.shape
          [] OTHER ->
                 /\ last.err = "TypeError"
                 /\ last.ref = Raw
                 /\ Len(heap) = last.n0

\* C10 witness: asarray was given a Function node and returned that node.
C10_Witness ==
    /\ last.op = "asarray"
    /\ last.arg.ty = "node"
    /\ last.arg.id \in Functions
    /\ last.ref = last.arg.id

(***************************************************************************)
(* Properties of the backward methods of the operators.                    *)
(***************************************************************************)

\* C11: for add and subtract over float leaves of broadcast-compatible shapes,
\* backward(g) with a real g of the output's shape completes and gives every
\* operand with requires_grad a gradient of the operand's shape: g summed over
\* the broadcast dimensions, negated for the right operand of subtract.
C11_BroadcastGradients ==
    (/\ last.op = "backward"
     /\ nbwd = 1
     /\ last.node \in Functions
     /\ heap[last.node].cls \in {"add", "subtract"}
     /\ last.g.dt = "float64"
     /\ heap[1].data.dt = "float64"
     /\ heap[2].data.dt = "float64")
    => /\ last.err = ""
       /\ \A l \in {1, 2} : heap[l].grad.shape = heap[l].data.shape
       /\ heap[1].grad.v = IF heap[1].rg THEN Unbroadcast(last.g, heap[1].data.shape)
                           ELSE Zeros("float64", heap[1].data.shape).v
       /\ heap[2].grad.v =
              IF ~heap[2].rg THEN Zeros("float64", heap[2].data.shape).v
              ELSE IF heap[last.node].cls = "add" THEN Unbroadcast(last.g, heap[2].data.shape)
              ELSE Unbroadcast(np_negative(last.g), heap[2].data.shape)

\* C11 witness: a - b with a of shape (NRows, VecLen) and b of shape (VecLen,),
\* a gradient of ones: a received ones and b received -NRows everywhere.
C11_Witness ==
    /\ last.op = "backward"
    /\ last.err = ""
    /\ heap[last.node].cls = "subtract"
    /\ heap[1].data.shape = <<NRows, VecLen>>
    /\ heap[2].data.shape = <<VecLen>>
    /\ last.g = Ones(<<NRows, VecLen>>)
    /\ heap[1].grad = Ones(<<NRows, VecLen>>)
    /\ heap[2].grad.v = [i \in 1..VecLen |-> <<-NRows, 0>>]

\* C12 as stated: multiply(a, b).backward(g) completes and delivers conj(b)*g to
\* a and conj(a)*g to b, each summed over its broadcast dimensions (a float leaf
\* keeps the real part of what it is given), and the grad of an operand with
\* requires_grad False does not change; it fails when a complex leaf is given
\* a complex gradient.
C12_MultiplyGradients ==
    (/\ last.op = "backward"
     /\ nbwd = 1
     /\ last.node \in Functions
     /\ heap[last.node].cls = "multiply")
    => /\ last.err = ""
       /\ \A l \in {1, 2} :
              heap[l].grad.v =
                  IF heap[l].rg
                  THEN Kept(heap[l].data.dt,
                            Unbroadcast(np_multiply(np_conj(heap[3 - l].data), last.g),
                                        heap[l].data.shape))
                  ELSE Zeros("float64", heap[l].data.shape).v

\* the exponent of power node n as a buffer: the Python int, the constant
\* ndarray, or the current value of the exponent node
ExponentOf(h, n) ==
    IF Len(h[n].args) = 2 THEN h[h[n].args[2]].data
    ELSE IF h[n].expa # NoBuf THEN h[n].expa
    ELSE Mk("int64", <<>>, <<<<h[n].exp, 0>>>>)

\* C13 as stated: power(base, exponent) with a constant scalar, a constant array
\* or a graph node as exponent: backward(g) completes, adds
\* exponent * base^(exponent-1) * g to the grad of a base with requires_grad and
\* leaves the grad of the exponent alone; it fails when the exponent is a node.
C13_PowerGradient ==
    (/\ last.op = "backward"
     /\ nbwd = 1
     /\ last.node \in Functions
     /\ heap[last.node].cls = "power"
     /\ last.g.dt = "float64")
    => LET e == ExponentOf(heap, last.node)
           x == heap[1].data
           d == np_multiply(np_multiply(e, np_power_array(x, np_subtract(e, Ones(<<>>)))), last.g)
       IN /\ last.err = ""
          /\ heap[1].grad.v = IF heap[1].rg THEN d.v ELSE Zeros("float64", x.shape).v
          /\ IsZero(heap[2].grad)

\* C14 as stated: for slice(x, index) over a real leaf x with requires_grad and
\* an index that names every position once, backward(g) with a real g gives x a
\* gradient of x's shape that is zero outside the indexed positions and equals
\* g exactly inside; it fails on integer data, where the fraction of g is lost.
C14_SliceGradient ==
    (/\ last.op = "backward"
     /\ nbwd = 1
     /\ last.node \in Functions
     /\ heap[last.node].cls = "slice"
     /\ heap[1].rg
     /\ heap[1].data.dt \in {"int64", "float64"}
     /\ last.g.dt \in {"int64", "float64"}
     /\ \A j, k \in 1..Len(heap[last.node].slc.pos) :
            heap[last.node].slc.pos[j] = heap[last.node].slc.pos[k] => j = k)
    => LET slc == heap[last.node].slc
       IN /\ last.err = ""
          /\ heap[1].grad.shape = heap[1].data.shape
          /\ \A p \in 1..Size(heap[1].data.shape) :
                 /\ (\A j \in 1..Len(slc.pos) : slc.pos[j] # p) => heap[1].grad.v[p] = <<0, 0>>
                 /\ \A j \in 1..Len(slc.pos) :
                        slc.pos[j] = p => heap[1].grad.v[p] = last.g.v[j]

(***************************************************************************)
(* Properties of einsum.                                                   *)
(***************************************************************************)
\* the written subscripts of the einsum call last records, without spaces, and
\* their two sides
Written == Without(last.arg.val, " ")
WrittenInput ==
    IF Arrows(Written) = {} THEN Written
    ELSE SubSeq(Written, 1, (CHOOSE k \in Arrows(Written) : TRUE) - 1)
WrittenOutput ==
    IF Arrows(Written) = {} THEN <<>>
    ELSE SubSeq(Written, (CHOOSE k \in Arrows(Written) : TRUE) + 2, Len(Written))

\* the place of a letter in the order of the character codes
Code(c) == CHOOSE k \in 1..Len(einsum_symbols) : einsum_symbols[k] = c

\* out holds exactly the letters of pool that occur exactly once in the terms
\* of ins, each once, in sorted order
IsSortedOnce(out, ins, pool) ==
    /\ \A k \in 1..Len(out) : out[k] \in pool /\ Count(ins, out[k]) = 1
    /\ \A c \in pool : Count(ins, c) = 1 => Has(out, c)
    /\ \A k, m \in 1..Len(out) : k < m => Code(out[k]) < Code(out[m])

Letters == {einsum_symbols[k] : k \in 1..Len(einsum_symbols)}

ParserReturned == last.op = "construct" /\ last.arg.ty = "str" /\ last.ret.err = ""

InvalidCharacter ==
    \E k \in 1..Len(Written) : Written[k] \notin Letters \cup {".", ",", "-", ">"}

BadArrow ==
    /\ Has(Written, "-") \/ Has(Written, ">")
    /\ ~(Count(Written, "-") = 1 /\ Count(Written, ">") = 1 /\ Cardinality(Arrows(Written)) = 1)

BadEllipsis ==
    \E term \in {Split(WrittenInput, ",")[k] : k \in 1..Len(Split(WrittenInput, ","))}
                \cup {WrittenOutput} :
        Has(term, ".") /\ ~(Count(term, ".") = 3 /\ Ellipses(term) # {})

WrongCount == Len(Split(WrittenInput, ",")) # Len(last.arg.operands)

AbsentOutput ==
    \E k \in 1..Len(WrittenOutput) :
        WrittenOutput[k] \in Letters /\ ~Has(WrittenInput, WrittenOutput[k])

Malformed ==
    \/ InvalidCharacter
    \/ BadArrow
    \/ ~BadArrow /\ (BadEllipsis \/ WrongCount \/ AbsentOutput)

\* C16 as stated: a malformed einsum call fails with a ValueError that the
\* parser raises, and leaves no node (the heap is as it was before the call)
C16_MalformedRejected ==
    (last.op = "construct" /\ last.arg.ty = "str" /\ Malformed) =>
        /\ last.err = "ValueError"
        /\ last.flag = "parser"
        /\ Len(heap) = last.n0

\* the einsum node whose backward last records, and its terms
EinsumBackward ==
    /\ last.op = "backward"
    /\ nbwd = 1
    /\ last.node \in Functions
    /\ heap[last.node].cls = "einsum"

TermsOf(n) == Split(heap[n].in_subs, ",")

\* the contraction C17 describes for input i: the forward output labels in the
\* place of term i, g in the place of operand i, to the labels of term i
EinsumContraction(n, i) ==
    np_einsum([j \in 1..Len(TermsOf(n)) |-> IF j = i THEN heap[n].out_sub ELSE TermsOf(n)[j]],
              TermsOf(n)[i],
              [j \in 1..Len(TermsOf(n)) |-> IF j = i THEN last.g ELSE heap[heap[n].inputs[j]].data])

\* x . y^T and x^T . y of square matrices, element by element
MatMulT(x, y) ==
    [p \in 1..(VecLen * VecLen) |->
        SumTo([k \in 1..VecLen |->
                 CMul(x.v[(((p - 1) \div VecLen) * VecLen) + k],
                      y.v[(((p - 1) % VecLen) * VecLen) + k])], VecLen)]

TMatMul(x, y) ==
    [p \in 1..(VecLen * VecLen) |->
        SumTo([k \in 1..VecLen |->
                 CMul(x.v[((k - 1) * VecLen) + ((p - 1) \div VecLen) + 1],
                      y.v[((k - 1) * VecLen) + ((p - 1) % VecLen) + 1])], VecLen)]

\* C17 as stated: einsum.backward(g) completes; every input with requires_grad
\* receives the contraction with g in its place, of its own shape (a float
\* leaf keeps the real part), which for 'i,i->i' and 'ij,ij->ij' is the gradient
\* multiply delivers (conj of the other operand times g) and for 'ij,jz->iz' is
\* g.B^T for A and A^T.g for B; the grad of every other input does not change
C17_EinsumGradients ==
    EinsumBackward =>
        /\ last.err = ""
        /\ \A i \in 1..Len(heap[last.node].inputs) :
              LET l == heap[last.node].inputs[i]
                  subs == heap[last.node].in_subs \o <<"-", ">">> \o heap[last.node].out_sub
              IN IF ~heap[l].rg THEN heap[l].grad = Zeros("float64", heap[l].data.shape)
                 ELSE /\ heap[l].grad.shape = heap[l].data.shape
                      /\ heap[l].grad.v = Kept(heap[l].data.dt, EinsumContraction(last.node, i).v)
                      /\ subs \in {<<"i", ",", "i", "-", ">", "i">>,
                                   <<"i", "j", ",", "i", "j", "-", ">", "i", "j">>} =>
                            heap[l].grad.v =
                                Kept(heap[l].data.dt,
                                     np_multiply(np_conj(heap[3 - l].data), last.g).v)
                      /\ subs = <<"i", "j", ",", "j", "z", "-", ">", "i", "z">> =>
                            heap[l].grad.v =
                                Kept(heap[l].data.dt,
                                     IF l = 1 THEN MatMulT(last.g, heap[2].data)
                                     ELSE TMatMul(heap[1].data, last.g))

\* C18 as stated: einsum.backward raises NotImplementedError when an input that
\* requires a gradient has a label repeated within its own term, and for no
\* other subscripts
C18_UnsupportedIffRepeated ==
    EinsumBackward =>
        (last.err = "NotImplementedError"
            <=> \E i \in 1..Len(heap[last.node].inputs) :
                    /\ heap[heap[last.node].inputs[i]].rg
                    /\ \E k, m \in 1..Len(TermsOf(last.node)[i]) :
                           k # m /\ TermsOf(last.node)[i][k] = TermsOf(last.node)[i][m])

(***************************************************************************)
(* Properties of tensordot.                                                *)
(***************************************************************************)
\* the axes of a and of b (from 1) that a specification contracts, in pairs
ContractedOfA(axes, na) ==
    IF axes.ndim = 0 THEN [k \in 1..axes.n |-> na - axes.n + k]
    ELSE [k \in 1..Len(axes.a) |-> Norm(axes.a[k], na) + 1]

ContractedOfB(axes, nb) ==
    IF axes.ndim = 0 THEN [k \in 1..axes.n |-> k]
    ELSE [k \in 1..Len(axes.b) |-> Norm(axes.b[k], nb) + 1]

\* the axes of a buffer of rank n that are not in the list, in order
FreeAxes(n, list) == SelectSeq([k \in 1..n |-> k], LAMBDA k : ~In(list, k))

\* the reference contraction: element (i, j) of the result, i over the free
\* axes of a and j over the free axes of b, is the sum over the indices c of
\* the contracted pairs of a[i, c] * b[c, j]
Contraction(a, b, ca, cb) ==
    LET fa == FreeAxes(Len(a.shape), ca)
        fb == FreeAxes(Len(b.shape), cb)
        shape == [k \in 1..(Len(fa) + Len(fb)) |->
                     IF k <= Len(fa) THEN a.shape[fa[k]] ELSE b.shape[fb[k - Len(fa)]]]
        cs == {c \in [1..Len(ca) -> 1..(VecLen + NRows)] :
                  \A m \in 1..Len(ca) : c[m] <= a.shape[ca[m]]}
        place(list, k) == CHOOSE m \in 1..Len(list) : list[m] = k
        ia(idx, c) == [k \in 1..Len(a.shape) |->
                          IF In(ca, k) THEN c[place(ca, k)] ELSE idx[place(fa, k)]]
        ib(idx, c) == [k \in 1..Len(b.shape) |->
                          IF In(cb, k) THEN c[place(cb, k)] ELSE idx[Len(fa) + place(fb, k)]]
        elem(idx) == [c \in cs |-> CMul(a.v[Flat(a.shape, ia(idx, c))],
                                        b.v[Flat(b.shape, ib(idx, c))])]
    IN Mk(Promote(a.dt, b.dt), shape,
          [p \in 1..Prod(shape) |-> SumOver(elem(Unflat(shape, p)), cs)])

\* the value C19 states for tensordot node n over the leaves 1 and 2
Reference(n) ==
    Contraction(heap[1].data, heap[2].data,
                ContractedOfA(heap[n].axes, Len(heap[1].data.shape)),
                ContractedOfB(heap[n].axes, Len(heap[2].data.shape)))

\* C19 as stated: a tensordot node holds the reference contraction of its
\* operands over the axes given, with the free axes of a before those of b, and
\* every later read of .data returns that value again
C19_TensordotValue ==
    /\ (/\ last.op = "construct" /\ last.arg.ty = "axes" /\ last.err = "")
           => heap[last.ref].data = Reference(last.ref)
    /\ (/\ last.op = "data" /\ last.node \in Functions /\ heap[last.node].cls = "tensordot")
           => /\ last.err = ""
              /\ last.ret = Reference(last.node)

\* the axis lists have different lengths, an operand has fewer dimensions than
\* axes are contracted, or a matched pair of axes has different sizes
AxesRejected(axes, sa, sb) ==
    LET ca == ContractedOfA(axes, Len(sa))
        cb == ContractedOfB(axes, Len(sb))
    IN \/ Len(ca) # Len(cb)
       \/ Len(sa) < Len(ca) \/ Len(sb) < Len(cb)
       \/ /\ Len(ca) = Len(cb)
          /\ \A m \in 1..Len(ca) : ca[m] \in 1..Len(sa) /\ cb[m] \in 1..Len(sb)
          /\ \E m \in 1..Len(ca) : sa[ca[m]] # sb[cb[m]]

GradOfA(g, a, b, ca, cb) ==
    LET fa == FreeAxes(Len(a.shape), ca)
        fb == FreeAxes(Len(b.shape), cb)
        js == {j \in [1..Len(fb) -> 1..(VecLen + NRows)] :
                  \A m \in 1..Len(fb) : j[m] <= b.shape[fb[m]]}
        place(list, k) == CHOOSE m \in 1..Len(list) : list[m] = k
        ig(idx, j) == [k \in 1..(Len(fa) + Len(fb)) |->
                          IF k <= Len(fa) THEN idx[fa[k]] ELSE j[k - Len(fa)]]
        ib(idx, j) == [k \in 1..Len(b.shape) |->
                          IF In(cb, k) THEN idx[ca[place(cb, k)]] ELSE j[place(fb, k)]]
        elem(idx) == [j \in js |-> CMul(g.v[Flat(g.shape, ig(idx, j))],
                                        b.v[Flat(b.shape, ib(idx, j))])]
    IN Mk(Promote(g.dt, b.dt), a.shape,
          [p \in 1..Prod(a.shape) |-> SumOver(elem(Unflat(a.shape, p)), js)])

GradOfB(g, a, b, ca, cb) ==
    LET fa == FreeAxes(Len(a.shape), ca)
        fb == FreeAxes(Len(b.shape), cb)
        is == {i \in [1..Len(fa) -> 1..(VecLen + NRows)] :
                  \A m \in 1..Len(fa) : i[m] <= a.shape[fa[m]]}
        place(list, k) == CHOOSE m \in 1..Len(list) : list[m] = k
        ig(idx, i) == [k \in 1..(Len(fa) + Len(fb)) |->
                          IF k <= Len(fa) THEN i[k] ELSE idx[fb[k - Len(fa)]]]
        ia(idx, i) == [k \in 1..Len(a.shape) |->
                          IF In(ca, k) THEN idx[cb[place(ca, k)]] ELSE i[place(fa, k)]]
        elem(idx) == [i \in is |-> CMul(a.v[Flat(a.shape, ia(idx, i))],
                                        g.v[Flat(g.shape, ig(idx, i))])]
    IN Mk(Promote(a.dt, g.dt), b.shape,
          [p \in 1..Prod(b.shape) |-> SumOver(elem(Unflat(b.shape, p)), is)])

\* the gradient buffer leaf x of a tensordot node holds after the node's first
\* backward, from the gradient ref delivered to it: the buffer of a new leaf
\* with ref added when x requires a gradient, that buffer alone when it does not
GradAfter(x, ref) ==
    IF heap[x].rg THEN InPlaceAdd(array_init(heap[x].data, TRUE).grad, Addend(heap[x], ref))
    ELSE array_init(heap[x].data, FALSE).grad

\* a backward call on a tensordot node
TensordotBackward ==
    /\ last.op = "backward"
    /\ last.node \in Functions
    /\ heap[last.node].cls = "tensordot"

\* the axes lists of the node count every axis from the front
FromFront(axes) ==
    /\ \A k \in 1..Len(axes.a) : axes.a[k] >= 0
    /\ \A k \in 1..Len(axes.b) : axes.b[k] >= 0

\* what C21 states of the backward call that last records
TensordotGradients ==
    LET n == last.node
        ca == ContractedOfA(heap[n].axes, Len(heap[1].data.shape))
        cb == ContractedOfB(heap[n].axes, Len(heap[2].data.shape))
    IN /\ last.err = ""
       /\ heap[1].grad = GradAfter(1, GradOfA(last.g, heap[1].data, heap[2].data, ca, cb))
       /\ heap[2].grad = GradAfter(2, GradOfB(last.g, heap[1].data, heap[2].data, ca, cb))

\* C21 as stated: backward(g) on a tensordot node, whatever its axes, delivers
\* to a the contraction of g with b over the free axes of b, in the shape and
\* axis order of a, and to b the contraction of a with g over the free axes of
\* a; an operand that does not require a gradient receives nothing
C21_TensordotBackward == TensordotBackward => TensordotGradients

\* C21 for the nodes whose axes count from the front
C21_FromFront ==
    (TensordotBackward /\ FromFront(heap[last.node].axes)) => TensordotGradients

\* a backward call on a node that contracts axis 1 of a rank 3 operand a with
\* axis 0 of a matrix b has left a gradient in both
C21_FromFrontReached ==
    /\ TensordotBackward
    /\ heap[last.node].axes = PairAxes(<<1>>, <<0>>)
    /\ heap[1].data.shape = <<VecLen, NRows, VecLen>>
    /\ heap[2].data.shape = <<NRows, VecLen>>
    /\ last.err = ""
    /\ ~IsZero(heap[1].grad)
    /\ ~IsZero(heap[2].grad)

(***************************************************************************)
(* Properties of dft2.                                                     *)
(***************************************************************************)
\* the leading index of an element of a stack of planes
Lead(idx) == SubSeq(idx, 1, Len(idx) - 2)

\* the exponent of the kernel between input element (r, s) of an m x n plane
\* and output element (u, v) of an M x N plane, in quarter turns
Turns(alpha, m, n, M, N, r, s, u, v) ==
    (alpha[1] * _dft2_coords(m)[r] * _dft2_coords(M)[u])
        + (alpha[2] * _dft2_coords(n)[s] * _dft2_coords(N)[v])

\* the unnormalised transform of x, plane by plane: F[u, v] is the sum over
\* (r, s) of x[r, s] * exp(-2j*pi*(alpha_row*r*u + alpha_col*s*v))
DftSum(x, out_shape, alpha) ==
    LET m == x.shape[Len(x.shape) - 1]
        n == x.shape[Len(x.shape)]
        shape == SubSeq(x.shape, 1, Len(x.shape) - 2) \o out_shape
        rs == (1..m) \X (1..n)
        elem(idx) == [q \in rs |->
                         CMul(x.v[Flat(x.shape, Lead(idx) \o q)],
                              Kernel(Turns(alpha, m, n, out_shape[1], out_shape[2], q[1], q[2],
                                           idx[Len(idx) - 1], idx[Len(idx)])))]
    IN Mk("complex128", shape, [p \in 1..Prod(shape) |-> SumOver(elem(Unflat(shape, p)), rs)])

\* the gradient a node with unitary=False delivers to an input of shape
\* in_shape: G[r, s] is the sum over (u, v) of g[u, v] times the conjugate kernel
DftGrad(g, in_shape, alpha) ==
    LET m == in_shape[Len(in_shape) - 1]
        n == in_shape[Len(in_shape)]
        M == g.shape[Len(g.shape) - 1]
        N == g.shape[Len(g.shape)]
        uv == (1..M) \X (1..N)
        elem(idx) == [q \in uv |->
                         CMul(g.v[Flat(g.shape, Lead(idx) \o q)],
                              CConj(Kernel(Turns(alpha, m, n, M, N, idx[Len(idx) - 1],
                                                 idx[Len(idx)], q[1], q[2]))))]
    IN Mk("complex128", in_shape,
          [p \in 1..Prod(in_shape) |-> SumOver(elem(Unflat(in_shape, p)), uv)])

\* c = sqrt(|alpha_row| * |alpha_col|) of dft2 node n, as <<numerator, denominator>>
Coeff(n) ==
    <<Root(Abs(dft2_alpha(heap[heap[n].args[2]].data)[1] * dft2_alpha(heap[heap[n].args[2]].data)[2])), 4>>

\* a dft2 node with unitary=True over a float input leaf was constructed or read
UnitaryValue ==
    /\ last.op \in {"construct", "data"}
    /\ last.err = ""
    /\ last.node \in Functions
    /\ heap[last.node].cls = "dft2"
    /\ heap[last.node].unitary

\* the first backward call returned on a dft2 node over a float input leaf
DftBackward ==
    /\ last.op = "backward"
    /\ nbwd = 1
    /\ last.err = ""
    /\ last.node \in Functions
    /\ heap[last.node].cls = "dft2"
    /\ heap[1].data.dt = "float64"

\* the forward half of C22: the output is c times the unnormalised transform
UnitaryForward ==
    UnitaryValue =>
        heap[last.node].data =
            Times(DftSum(heap[1].data, heap[last.node].out_shape, dft2_alpha(heap[2].data)),
                  Coeff(last.node))

MaskedNode ==
    /\ last.node \in Functions
    /\ heap[last.node].cls = "sserror"
    /\ heap[last.node].mask # NoMask

\* forward() of node n would return the value the node holds if element i of
\* the model were value
SameError(n, i, value) ==
    LET r == sserror_of(heap[n], array_setitem(heap[1], i, value).data)
    IN r.err = "" => Float(r.val) = heap[n].data

\* the elements with mask entry b take no part in the value the node has just
\* computed, nor in the gradient it has just delivered
Excluded(b) ==
    /\ (/\ last.op \in {"construct", "data"} /\ last.err = "" /\ MaskedNode)
           => \A i \in 1..Size(CostShape) :
                  heap[last.node].mask[i] = b => \A value \in {0, 3} : SameError(last.node, i, value)
    /\ (/\ last.op = "backward" /\ last.err = "" /\ MaskedNode)
           => \A i \in 1..Size(CostShape) :
                  heap[last.node].mask[i] = b => heap[1].grad.v[i] = <<0, 0>>

\* C24 as stated: the elements whose mask entry is True contribute nothing to
\* the error value, so that changing the model there leaves it unchanged, and
\* receive zero gradient
C24_TrueIsInvalid == Excluded(TRUE)

\* what holds instead: the elements whose mask entry is False are the ones
\* left out of the value and of the gradient
C24_FalseIsLeftOut == Excluded(FALSE)

\* a masked node delivered a gradient that is not zero
C24_GradientReached ==
    /\ last.op = "backward"
    /\ last.err = ""
    /\ MaskedNode
    /\ ~IsZero(heap[1].grad)

\* sserror with gain_bias_invariant=True was constructed or evaluated on a
\* model of zeros
ZeroModel ==
    /\ IsZero(heap[1].data)
    /\ \/ /\ last.op = "construct"
          /\ last.arg.ty = "sserror"
          /\ last.arg.val.gain_bias_invariant
       \/ /\ last.op = "data"
          /\ last.node \in Functions
          /\ heap[last.node].cls = "sserror"
          /\ heap[last.node].gain_bias_invariant

\* the call raised ZeroDivisionError and left no node and no new value
Refused ==
    /\ last.err = "ZeroDivisionError"
    /\ last.op = "construct" => Len(heap) = last.n0
    /\ last.op = "data" => heap[last.node].data = last.old

\* C25 as stated: on a model of zeros, with or without a mask, sserror with
\* gain_bias_invariant=True raises ZeroDivisionError at construction and at
\* every later evaluation, and no value is returned or stored
C25_ZeroModelRefused == ZeroModel => Refused

\* C25 for the calls without a mask or with a mask that has a True entry
C25_SomeTrue ==
    (/\ ZeroModel
     /\ last.op = "construct"
            => \/ last.arg.val.mask = NoMask
               \/ \E i \in DOMAIN last.arg.val.mask.v : last.arg.val.mask.v[i])
    => Refused

\* a node built on another model was read after the model was set to zeros
C25_LaterReached ==
    /\ ZeroModel
    /\ last.op = "data"
    /\ last.err = "ZeroDivisionError"

(***************************************************************************)
(* zero_grad() against a freshly constructed leaf.                         *)
(***************************************************************************)

\* what backward(g) does to a newly constructed array holding the same data
\* with requires_grad=True
FreshBackward(data, g) == array_backward(array_init(data, TRUE), g)

\* backward(g) has just run on a leaf that requires gradients, directly after
\* zero_grad() on that leaf
BackwardAfterZeroGrad ==
    /\ last.op = "zero_grad"
    /\ last'.op = "backward"
    /\ last'.node = last.node
    /\ heap[last.node].rg

\* C29 as stated: for data of any type, backward(g) directly after zero_grad()
\* ends as backward(g) on a new array with the same data and requires_grad=True
\* does: the same exception or none, and the same values in grad; it does not on
\* integer and on complex data.
C29_ZeroGradAsFresh ==
    [][BackwardAfterZeroGrad =>
          /\ last'.err = FreshBackward(heap[last.node].data, last'.g).err
          /\ heap'[last.node].grad.v = FreshBackward(heap[last.node].data, last'.g).a.grad.v]_vars

\* C29 on floating data, where zero_grad() makes the buffer a new array has
C29_FloatData ==
    [][(BackwardAfterZeroGrad /\ IsFloatDtype(heap[last.node].data.dt)) =>
          /\ last'.err = FreshBackward(heap[last.node].data, last'.g).err
          /\ heap'[last.node].grad.v = FreshBackward(heap[last.node].data, last'.g).a.grad.v]_vars

(***************************************************************************)
(* SpecExp: two real leaves a (object 1) and b (object 2), exp and the     *)
(* elementwise operators over any objects, and backward on a Function node *)
(* with a gradient of the shape of its output.  The event of a backward    *)
(* call holds in ret the caller's gradient buffer as it is after the call. *)
(***************************************************************************)
\* number of objects of a graph with exp nodes
MaxExpNodes == 4

ExpShapes == {<<<<>>, <<>>>>, <<<<VecLen>>, <<VecLen>>>>, <<<<VecLen>>, <<>>>>, <<<<1>>, <<VecLen>>>>}

InitExp ==
    /\ \E s \in ExpShapes, dt \in {"int64", "float64"}, ra \in BOOLEAN, rb \in BOOLEAN :
           heap = <<array_init(Ramp(dt, s[1], 0), ra), array_init(Ramp(dt, s[2], 1), rb)>>
    /\ last = Start
    /\ nbwd = 0
    /\ optim = NoBlueprint

\* the constructor call cls(*operands) on objects of the graph
ConstructedOver(cls, operands) ==
    /\ Len(heap) < MaxExpNodes
    /\ nbwd = 0
    /\ LET r == construct(ResetCalls(heap), cls, operands, 0)
       IN /\ heap' = r.h
          /\ last' = Event("construct", r.ref, operands[1], NoBuf, NoBuf, r.ref, "", r.err)
    /\ UNCHANGED <<nbwd, optim>>

\* exp(x)
ConstructExp == \E x \in Objects : ConstructedOver("exp", <<NodeRef(x)>>)

\* add(x1, x2), subtract(x1, x2), multiply(x1, x2)
ConstructOverObjects ==
    \E cls \in {"add", "subtract", "multiply"}, x1 \in Objects, x2 \in Objects :
        ConstructedOver(cls, <<NodeRef(x1), NodeRef(x2)>>)

\* f.backward(g) on a Function node, g a buffer of the caller
BackwardBuffer ==
    \E n \in Functions :
        \E g \in OutputSeeds(heap[n].data.shape) :
            /\ nbwd < MaxBwd
            /\ LET r == backward(heap, n, g)
               IN /\ heap' = r.h
                  /\ last' = Event("backward", n, NoArg, g, r.g, Raw, "", r.err)
            /\ nbwd' = nbwd + 1
            /\ UNCHANGED optim

NextExp ==
    \/ ConstructExp
    \/ ConstructOverObjects
    \/ BackwardBuffer

SpecExp == InitExp /\ [][NextExp]_vars

(***************************************************************************)
(* Properties of the gradient buffer given to backward.                    *)
(***************************************************************************)
RECURSIVE HasExp(_, _)
\* an exp node is reachable from object n
HasExp(h, n) ==
    /\ ~IsArray(h, n)
    /\ \/ h[n].cls = "exp"
       \/ \E k \in 1..Len(h[n].args) : HasExp(h, h[n].args[k])

\* backward(g) has just run on add(exp(a), b) for two leaves a and b of the
\* same shape that require gradients
AddExpBackward ==
    /\ last.op = "backward"
    /\ heap[last.node].cls = "add"
    /\ LET e == heap[last.node].args[1]
           b == heap[last.node].args[2]
       IN /\ heap[e].cls = "exp"
          /\ IsArray(heap, heap[e].args[1])
          /\ IsArray(heap, b)
          /\ heap[e].args[1] # b
          /\ heap[heap[e].args[1]].rg /\ heap[b].rg
          /\ heap[heap[e].args[1]].data.shape = heap[b].data.shape

\* C28 as stated: after root.backward(g) the caller's g holds the values it had,
\* and for add(exp(a), b) with real a, b of the same shape that both require
\* gradients b.grad has increased (from zeros) by exactly g, its real part;
\* exp.backward multiplies into the buffer it is given.
C28_GradientBufferKept ==
    /\ last.op = "backward" => last.ret = last.g
    /\ AddExpBackward =>
           heap[heap[last.node].args[2]].grad.v = np_real(last.g).v

\* C28 on graphs without an exp node: the caller's buffer is as it was
C28_WithoutExp ==
    (last.op = "backward" /\ ~HasExp(heap, last.node)) => last.ret = last.g

\* what add(exp(a), b) delivers to b: g * exp(a), its real part
C28_Delivered ==
    (AddExpBackward /\ last.err = "") =>
        heap[heap[last.node].args[2]].grad.v =
            np_real(np_multiply(last.g, heap[heap[last.node].args[1]].data)).v

(***************************************************************************)
(* SpecMask: one float leaf a (object 1) of rank 0, 1 or 2, constructed    *)
(* without a mask or with a mask of its shape, the Blueprint over it, and  *)
(* the flattening and scattering operations.                               *)
(***************************************************************************)
MaskShapes == {<<>>, <<VecLen>>, <<1, VecLen>>, <<NRows, VecLen>>}

\* the boolean buffers of a shape
MasksOf(shape) == {[dt |-> "bool", shape |-> shape, v |-> v] : v \in [1..Size(shape) -> BOOLEAN]}

InitMask ==
    /\ \E s \in MaskShapes :
           \E mask \in {NoneMask} \cup MasksOf(s) :
               heap = <<array_init_mask(Ramp("float64", s, 1), mask, FALSE)>>
    /\ last = Start
    /\ nbwd = 0
    /\ optim = NoBlueprint

\* the requires_grad flags of the objects before a call
FlagsBefore == [ty |-> "flags", id |-> Raw, val |-> [n \in 1..Len(heap) |-> heap[n].rg]]

\* optim = Blueprint(fun, params)
Built(fun, params) ==
    /\ optim = NoBlueprint
    /\ LET r == Blueprint_init(heap, fun, params)
       IN /\ heap' = r.h
          /\ optim' = r.optim
          /\ last' = Event("Blueprint", fun, FlagsBefore, NoBuf, NoBuf, Raw, "", r.err)
    /\ UNCHANGED nbwd

\* Blueprint(a, a)
BuildOverLeaf == Built(1, <<1>>)

\* a.flatten(apply_mask)
Flatten ==
    \E n \in Leaves, apply_mask \in BOOLEAN :
        /\ last' = Event("flatten", n, NoArg, NoBuf, flatten(heap[n], apply_mask), Raw,
                         IF apply_mask THEN "true" ELSE "false", "")
        /\ UNCHANGED <<heap, nbwd, optim>>

\* a.grad_flatten(apply_mask)
GradFlatten ==
    \E n \in Leaves, apply_mask \in BOOLEAN :
        /\ last' = Event("grad_flatten", n, NoArg, NoBuf, grad_flatten(heap[n], apply_mask), Raw,
                         IF apply_mask THEN "true" ELSE "false", "")
        /\ UNCHANGED <<heap, nbwd, optim>>

\* optim.x
ReadX ==
    /\ optim # NoBlueprint
    /\ LET r == Blueprint_x(heap, optim)
       IN last' = Event("x", optim.fun, NoArg, NoBuf, r.val, Raw, "", r.err)
    /\ UNCHANGED <<heap, nbwd, optim>>

\* the vectors an optimizer hands over: n whole numbers from c on
Points(n, C) == {Ramp("float64", <<n>>, c) : c \in C}

\* optim.x = value, for a vector of the length of x
WriteX(C) ==
    /\ optim # NoBlueprint
    /\ \E value \in Points(Blueprint_stop(optim), C) :
           LET r == Blueprint_set_x(heap, optim, value)
           IN /\ heap' = r.h
              /\ last' = Event("set_x", optim.params[1].p, NoArg, value, NoBuf, Raw, "", r.err)
    /\ UNCHANGED <<nbwd, optim>>

\* a.backward(g) on a leaf with a real gradient of its shape
BackwardLeaf ==
    \E n \in Leaves :
        \E g \in {Ones(heap[n].data.shape), Ramp("float64", heap[n].data.shape, 1)} :
            /\ nbwd < MaxBwd
            /\ LET r == backward(heap, n, g)
               IN /\ heap' = r.h
                  /\ last' = Event("backward", n, NoArg, g, NoBuf, Raw, "", r.err)
            /\ nbwd' = nbwd + 1
            /\ UNCHANGED optim

NextMask ==
    \/ BuildOverLeaf
    \/ Flatten
    \/ GradFlatten
    \/ ReadX
    \/ WriteX({7, 11})
    \/ BackwardLeaf

SpecMask == InitMask /\ [][NextMask]_vars

(***************************************************************************)
(* Properties of masked flattening and of Blueprint.x.                     *)
(***************************************************************************)
\* the mask entry of element i of leaf a: False everywhere without a mask
MaskAt(a, i) == IF a.mask.shape = <<>> THEN a.mask.v[1] ELSE a.mask.v[i]

RECURSIVE UnmaskedTo(_, _)
\* the positions among 1..k whose mask entry is False, in row-major order
UnmaskedTo(a, k) ==
    IF k = 0 THEN <<>>
    ELSE IF MaskAt(a, k) THEN UnmaskedTo(a, k - 1)
    ELSE Append(UnmaskedTo(a, k - 1), k)

Unmasked(a) == UnmaskedTo(a, Size(a.data.shape))

\* ret is the one-dimensional buffer of the unmasked elements of buf
IsUnmaskedOf(ret, a, buf) ==
    /\ ret.shape = <<Len(Unmasked(a))>>
    /\ ret.v = [k \in 1..Len(Unmasked(a)) |-> buf.v[Unmasked(a)[k]]]

\* the leaf a holds v[k] at its k-th unmasked position and what old held elsewhere
IsScattered(a, v, old) ==
    /\ Len(v.v) = Len(Unmasked(a))
    /\ \A k \in 1..Len(Unmasked(a)) : a.data.v[Unmasked(a)[k]] = v.v[k]
    /\ \A i \in 1..Size(a.data.shape) : MaskAt(a, i) => a.data.v[i] = old.v[i]

\* flatten, grad_flatten and Blueprint.x as claimed, in the state after the call
FlattensAndScatters ==
    /\ (last.op = "flatten" /\ last.flag = "true") =>
           IsUnmaskedOf(last.ret, heap[last.node], heap[last.node].data)
    /\ (last.op = "grad_flatten" /\ last.flag = "true") =>
           IsUnmaskedOf(last.ret, heap[last.node], heap[last.node].grad)
    /\ last.op = "set_x" =>
           /\ last.err = ""
           /\ IsScattered(heap[last.node], last.g, last.old)
           /\ Blueprint_x(heap, optim) = [val |-> last.g, err |-> ""]

\* C26 as stated: for a leaf of rank 0, 1 or 2, with a mask or without one,
\* flatten(apply_mask=True) and grad_flatten(apply_mask=True) return the
\* one-dimensional buffer of the unmasked elements in row-major order, the x
\* setter puts v[k] at the k-th unmasked position and leaves the masked
\* elements, and x reads v afterwards; without a mask the buffers returned have
\* a leading axis of length 1 and the setter fails on a leaf of several rows.
C26_MaskedFlatten == FlattensAndScatters

\* C26 on a leaf of rank 0, or with a mask of its shape
C26_WithMask ==
    (heap[1].data.shape = <<>> \/ heap[1].mask.shape = heap[1].data.shape) => FlattensAndScatters

\* a value was scattered into a leaf of rank 2 with masked and unmasked elements
C26_ScatterReached ==
    /\ last.op = "set_x"
    /\ last.err = ""
    /\ Len(heap[1].data.shape) = 2
    /\ Len(Unmasked(heap[1])) \in 2..(Size(heap[1].data.shape) - 1)
    /\ heap[1].data # last.old

(***************************************************************************)
(* SpecBlueprint: two float leaves x (object 1) and c (object 2) with any  *)
(* flags, a graph of two Function nodes over them, the Blueprint over the  *)
(* last node, and cost(x) and grad(x) at any points in any order.          *)
(***************************************************************************)
\* number of objects of a graph given to the optimizer
MaxFunNodes == 4

InitBlueprint ==
    /\ \E s \in {<<>>, <<VecLen>>}, rx \in BOOLEAN :
           heap = <<array_init(Ramp("float64", s, 1), rx), array_init(Ramp("float64", s, 5), ~rx)>>
    /\ last = Start
    /\ nbwd = 0
    /\ optim = NoBlueprint

\* a constructor call on objects of the graph, before the Blueprint is built
ConstructedFor(cls, operands, e) ==
    /\ Len(heap) < MaxFunNodes
    /\ optim = NoBlueprint
    /\ LET r == construct(ResetCalls(heap), cls, operands, e)
       IN /\ heap' = r.h
          /\ last' = Event("construct", r.ref, operands[1], NoBuf, NoBuf, r.ref, "", r.err)
    /\ UNCHANGED <<nbwd, optim>>

\* subtract(x1, x2) and multiply(x1, x2) with a leaf x2, power(x1, e)
ConstructFun ==
    \E x1 \in Objects :
        \/ \E cls \in {"subtract", "multiply"}, x2 \in Leaves :
               ConstructedFor(cls, <<NodeRef(x1), NodeRef(x2)>>, 0)
        \/ \E e \in Exponents : ConstructedFor("power", <<NodeRef(x1)>>, e)

\* Blueprint(fun, params) for the node constructed last
BuildBlueprint ==
    /\ Len(heap) = MaxFunNodes
    /\ \E params \in {<<1>>, <<1, 2>>} : Built(Len(heap), params)

\* optim.cost(x)
Cost(C) ==
    /\ optim # NoBlueprint
    /\ \E x \in Points(Blueprint_stop(optim), C) :
           LET r == Blueprint_cost(heap, optim, x)
           IN /\ heap' = r.h
              /\ last' = Event("cost", optim.fun, NoArg, x, r.val, Raw, "", r.err)
    /\ UNCHANGED <<nbwd, optim>>

\* optim.grad(x)
Grad(C) ==
    /\ optim # NoBlueprint
    /\ \E x \in Points(Blueprint_stop(optim), C) :
           LET r == Blueprint_grad(heap, optim, x)
           IN /\ heap' = r.h
              /\ last' = Event("grad", optim.fun, NoArg, x, r.val, Raw, "", r.err)
    /\ UNCHANGED <<nbwd, optim>>

NextBlueprint ==
    \/ ConstructFun
    \/ BuildBlueprint
    \/ Cost({2, 3})
    \/ Grad({2, 3})

SpecBlueprint == InitBlueprint /\ [][NextBlueprint]_vars

(***************************************************************************)
(* Properties of the Blueprint.                                            *)
(***************************************************************************)
\* the outcome of evaluating fun on heap h, for the backward pass
Evaluated(r) == [h |-> r.h, err |-> r.err]

\* the gradient of fun at the point the leaves hold: forward values computed
\* there, every reachable leaf gradient zeroed, then the backward pass
GradientHere(h, o) == GradFrom(o, Evaluated(getdata(ResetCalls(h), o.fun))).val

\* C27 as stated: the vector grad(x) returns is the gradient of fun at x, after
\* any sequence of earlier cost() and grad() calls at any points; grad()
\* runs no forward evaluation, so after a change of x the backward pass uses
\* the values the nodes cached at the point of the last evaluation.
C27_GradDependsOnX ==
    last.op = "grad" => (last.err = "" /\ last.ret = GradientHere(heap, optim))

\* C27 for a grad(x) that directly follows cost(x) at the same x
C27_AfterCost ==
    [][(last.op = "cost" /\ last'.op = "grad" /\ last'.g = last.g) =>
          (last'.err = "" /\ last'.ret = GradientHere(heap', optim'))]_vars

\* grad(x) has returned the gradient at x after an evaluation at x
C27_AfterCostReached ==
    /\ last.op = "grad"
    /\ last.err = ""
    /\ last.ret = GradientHere(heap, optim)
    /\ ~IsZero(last.ret)
    /\ ~IsArray(heap, heap[optim.fun].args[1])

RECURSIVE Reaches(_, _, _)
\* leaf a is reachable from object n by following node inputs
Reaches(h, n, a) ==
    IF IsArray(h, n) THEN n = a
    ELSE \E k \in 1..Len(h[n].inputs) : h[n].inputs[k] # Raw /\ Reaches(h, h[n].inputs[k], a)

\* the leaves of a Blueprint's params
ParamsOf(o) == {o.params[k].p : k \in 1..Len(o.params)}

\* C30: once a Blueprint is built for (fun, params), every leaf reachable from
\* fun by following node inputs has requires_grad True if and only if it is
\* one of params, whatever its flag was before; the leaf collection holds each
\* reachable leaf exactly once.
C30_ParamsMarked ==
    optim # NoBlueprint =>
        /\ \A a \in Leaves :
               Reaches(heap, optim.fun, a) => (heap[a].rg <=> a \in ParamsOf(optim))
        /\ \A a \in Leaves :
               Cardinality({k \in 1..Len(_dump_arrays(heap, optim.fun, <<>>)) :
                               _dump_arrays(heap, optim.fun, <<>>)[k] = a})
                   = (IF Reaches(heap, optim.fun, a) THEN 1 ELSE 0)

\* C30 witness: a Blueprint was built over a graph whose two nodes share leaf x
\* and reach leaf c; x had requires_grad False and is the parameter, c had
\* requires_grad True and is none.
C30_Witness ==
    /\ last.op = "Blueprint"
    /\ last.err = ""
    /\ Len(heap) = 4
    /\ ParamsOf(optim) = {1}
    /\ Reaches(heap, optim.fun, 2)
    /\ In(heap[3].inputs, 1) /\ In(heap[4].inputs, 1) /\ In(heap[4].inputs, 3)
    /\ ~last.arg.val[1] /\ last.arg.val[2]
    /\ heap[1].rg /\ ~heap[2].rg

====
